---- MODULE Spec2Model ----
(***************************************************************************)
(* Model of the email threat scoring pipeline: EmailThreatDetector         *)
(* (email_threat_detector.py), FeatureExtractor (feature_extractor.py),    *)
(* URLAnalyzer (url_analyzer.py) and MetadataAnalyzer                      *)
(* (metadata_analyzer.py).                                                 *)
(*                                                                         *)
(* Units.  Scores and probabilities are integers in hundredths (0.7 is     *)
(* 70), risk_breakdown components are integers in thousandths (the code    *)
(* rounds them to three decimals), time is in seconds.                     *)
(***************************************************************************)
EXTENDS Integers, Sequences, FiniteSets, TLC

VARIABLES
    features,      \* the FeatureMap handed to the scoring engine
    sender_digit,  \* whether the local part of email_data['sender'] has a digit
    bundle,        \* self.model_bundle of the detector
    oracle,        \* what the classifier and the attribution step answer
    verdict,       \* what analyze_email returned (None before the call)
    whois_cache,   \* url_analyzer._whois_cache: domain -> ts, age_days, recently_updated
    clock,         \* time.time(), in seconds
    whois_registry,      \* what whois.whois answers for each domain
    whois_available, \* whether the whois module was imported
    input,         \* the argument of the next call
    out,           \* what the last call returned or raised
    prev,          \* what the call before it returned or raised
    calls,         \* the calls of _extract_whois_features in progress, by caller
    profiles,      \* GmailAddonManager.profiles: username -> profile
    granted,       \* the (username, sender) pairs add_to_whitelist has accepted
    semantic,      \* semantic_analyzer._model and _SENTENCE_TRANSFORMERS_AVAILABLE
    user_inboxes,  \* GmailSimulator.user_inboxes: username -> emails, flagged ids
    statistics     \* the 'statistics' of each profile: last scan's counts

vars == <<features, sender_digit, bundle, oracle, verdict, whois_cache, clock,
          whois_registry, whois_available, input, out, prev, calls, profiles,
          granted, semantic, user_inboxes, statistics>>

\* the callers of the lookup and the add-on, which the detector does not touch
aside == <<calls, profiles, granted, semantic, user_inboxes, statistics>>

\* the variables of the analyzers, which the scoring engine does not touch
env == <<whois_cache, clock, whois_registry, whois_available, input, out, prev,
         calls, profiles, granted, semantic, user_inboxes, statistics>>

\* the three shapes a Python value takes where the code tests it for None or
\* for emptiness: no verdict yet, the empty dict, an absent array
NoVerdict == [none |-> TRUE]
EmptyDict == [empty |-> TRUE]
NoOut == [op |-> "none"]
NoInput == [kind |-> "none"]
\* the module state of semantic_analyzer at import (lines 10-11), in an
\* environment where loading the sentence-transformers model succeeds
\* (installed) or raises
NoSemantic == [installed |-> FALSE, model |-> FALSE, available |-> FALSE]

\* _load_model without its global statement: the model it loads is not kept
load_model_not_kept(s) ==
    IF s.model THEN s ELSE [s EXCEPT !.available = s.installed]

\* semantic_analyzer._load_model (lines 13-24) on the module state s
load_model(s) ==
    IF s.model THEN s
    ELSE IF s.installed THEN [s EXCEPT !.model = TRUE, !.available = TRUE]
    ELSE [s EXCEPT !.available = FALSE]

----------------------------------------------------------------------------
(* Small helpers *)

Min(a, b) == IF a <= b THEN a ELSE b
Max(a, b) == IF a >= b THEN a ELSE b
Abs(x) == IF x < 0 THEN -x ELSE x

\* the integers of the set S in increasing order
Ascending(S) ==
    [k \in 1..Cardinality(S) |->
        CHOOSE x \in S : Cardinality({y \in S : y < x}) = k - 1]

RECURSIVE SumSeq(_)
SumSeq(s) == IF s = <<>> THEN 0 ELSE Head(s) + SumSeq(Tail(s))

\* dict.get(k, 0)
Get(f, k) == IF k \in DOMAIN f THEN f[k] ELSE 0

\* round(n / d, 3) in thousandths, for n >= 0 and d > 0
Round3(n, d) == (2000 * n + d) \div (2 * d)

----------------------------------------------------------------------------
(* Python strings: TLC reads a string as the sequence of its characters *)

\* s[i:i+1], 1-based: the empty string outside the string
Ch(s, i) == IF i \in 1..Len(s) THEN SubSeq(s, i, i) ELSE ""

\* sub in s
Contains(s, sub) ==
    \E i \in 1..(Len(s) - Len(sub) + 1) : SubSeq(s, i, i + Len(sub) - 1) = sub

\* s.startswith(sub)
StartsWith(s, sub) == Len(sub) <= Len(s) /\ SubSeq(s, 1, Len(sub)) = sub

\* s.find(sub) as a 1-based index, 0 when sub is not in s
Find(s, sub) ==
    IF Contains(s, sub)
    THEN CHOOSE i \in 1..(Len(s) - Len(sub) + 1) :
             /\ SubSeq(s, i, i + Len(sub) - 1) = sub
             /\ \A j \in 1..(i - 1) : SubSeq(s, j, j + Len(sub) - 1) # sub
    ELSE 0

\* s.count(c) for a single character c
CountChar(s, c) == Cardinality({i \in 1..Len(s) : Ch(s, i) = c})

\* the least index of a character of s that lies in set cs, Len(s) + 1 if none
FirstOf(s, cs) ==
    IF \E i \in 1..Len(s) : Ch(s, i) \in cs
    THEN CHOOSE i \in 1..Len(s) :
             Ch(s, i) \in cs /\ \A j \in 1..(i - 1) : Ch(s, j) \notin cs
    ELSE Len(s) + 1

Upper == <<"A", "B", "C", "D", "E", "F", "G", "H", "I", "J", "K", "L", "M",
           "N", "O", "P", "Q", "R", "S", "T", "U", "V", "W", "X", "Y", "Z">>
Lowers == <<"a", "b", "c", "d", "e", "f", "g", "h", "i", "j", "k", "l", "m",
            "n", "o", "p", "q", "r", "s", "t", "u", "v", "w", "x", "y", "z">>
Digits == {"0", "1", "2", "3", "4", "5", "6", "7", "8", "9"}
Letters == {Upper[i] : i \in 1..26} \cup {Lowers[i] : i \in 1..26}

LowerCh(c) ==
    IF \E i \in 1..26 : Upper[i] = c
    THEN Lowers[CHOOSE i \in 1..26 : Upper[i] = c] ELSE c

RECURSIVE Lower(_)
\* s.lower(): character by character, the string halved at each step
Lower(s) ==
    IF Len(s) <= 1 THEN LowerCh(s)
    ELSE Lower(SubSeq(s, 1, Len(s) \div 2))
         \o Lower(SubSeq(s, Len(s) \div 2 + 1, Len(s)))

RECURSIVE Split(_, _)
\* s.split(c) for a single character c
Split(s, c) ==
    LET i == FirstOf(s, {c})
    IN  IF i > Len(s) THEN <<s>>
        ELSE <<SubSeq(s, 1, i - 1)>> \o Split(SubSeq(s, i + 1, Len(s)), c)

RECURSIVE Join(_, _)
\* c.join(parts)
Join(parts, c) ==
    IF parts = <<>> THEN ""
    ELSE IF Len(parts) = 1 THEN parts[1]
    ELSE parts[1] \o c \o Join(Tail(parts), c)

IsDigits(s) == s # "" /\ \A i \in 1..Len(s) : Ch(s, i) \in Digits

DigitValue(c) ==
    CASE c = "0" -> 0 [] c = "1" -> 1 [] c = "2" -> 2 [] c = "3" -> 3
      [] c = "4" -> 4 [] c = "5" -> 5 [] c = "6" -> 6 [] c = "7" -> 7
      [] c = "8" -> 8 [] c = "9" -> 9

RECURSIVE ToInt(_)
\* int(s) for a string of digits
ToInt(s) ==
    IF s = "" THEN 0
    ELSE 10 * ToInt(SubSeq(s, 1, Len(s) - 1)) + DigitValue(Ch(s, Len(s)))

\* 1000 * log2(k) for k in 1..40
Log2Milli ==
    << 0, 1000, 1585, 2000, 2322, 2585, 2807, 3000, 3170, 3322,
       3459, 3585, 3700, 3807, 3907, 4000, 4087, 4170, 4248, 4322,
       4392, 4459, 4524, 4585, 4644, 4700, 4755, 4807, 4858, 4907,
       4954, 5000, 5044, 5087, 5129, 5170, 5209, 5248, 5285, 5322 >>

RECURSIVE CountLogSum(_, _)
\* sum of count(c) * 1000 * log2(count(c)) over the characters c of chars
CountLogSum(chars, s) ==
    IF chars = {} THEN 0
    ELSE LET c == CHOOSE y \in chars : TRUE
         IN  CountChar(s, c) * Log2Milli[CountChar(s, c)]
             + CountLogSum(chars \ {c}, s)

\* -sum(p * log2(p)) over the character frequencies of s, in thousandths
Entropy(s) ==
    IF s = "" THEN 0
    ELSE Log2Milli[Len(s)]
         - (CountLogSum({Ch(s, i) : i \in 1..Len(s)}, s) \div Len(s))

----------------------------------------------------------------------------
(* Threat Scoring Engine: email_threat_detector.py *)

\* the banding with the phishing edge excluded
ThreatType_exclusive(score) ==
    IF score > 70 THEN "phishing"
    ELSE IF score >= 50 THEN "suspicious"
    ELSE "legitimate"

\* the banding shared by _ml_detection and _rule_based_detection
ThreatType(score) ==
    IF score >= 70 THEN "phishing"
    ELSE IF score >= 50 THEN "suspicious"
    ELSE "legitimate"

\* the six terms with the exclamation term growing with every mark
LegacyTerms_per_mark(f) ==
    << IF Get(f, "phishing_keyword_count") > 4 THEN 35
       ELSE IF Get(f, "phishing_keyword_count") > 2 THEN 25 ELSE 0,
       IF Get(f, "high_risk_phrase_count") > 0 THEN 25 ELSE 0,
       IF Get(f, "url_count") > 2 THEN 20
       ELSE IF Get(f, "url_count") > 0 THEN 10 ELSE 0,
       IF Get(f, "ip_address_count") > 0 THEN 25 ELSE 0,
       IF Get(f, "urgency_word_count") > 2 THEN 20
       ELSE IF Get(f, "urgency_word_count") > 0 THEN 10 ELSE 0,
       8 * Get(f, "exclamation_count") >>

\* the six terms both definitions of _rule_based_detection add
LegacyTerms(f) ==
    << IF Get(f, "phishing_keyword_count") > 4 THEN 35
       ELSE IF Get(f, "phishing_keyword_count") > 2 THEN 25 ELSE 0,
       IF Get(f, "high_risk_phrase_count") > 0 THEN 25 ELSE 0,
       IF Get(f, "url_count") > 2 THEN 20
       ELSE IF Get(f, "url_count") > 0 THEN 10 ELSE 0,
       IF Get(f, "ip_address_count") > 0 THEN 25 ELSE 0,
       IF Get(f, "urgency_word_count") > 2 THEN 20
       ELSE IF Get(f, "urgency_word_count") > 0 THEN 10 ELSE 0,
       IF Get(f, "exclamation_count") > 3 THEN 15
       ELSE IF Get(f, "exclamation_count") > 1 THEN 8 ELSE 0 >>

\* the five terms only the first definition adds ("New features")
NewTerms(f) ==
    << IF Get(f, "grammar_anomaly_score") > 50 THEN 10 ELSE 0,
       IF Get(f, "brand_impersonation") = 1 \/ Get(f, "url_brand_impersonation") = 1
       THEN 25 ELSE 0,
       IF Get(f, "cta_intensity") > 50 THEN 10 ELSE 0,
       IF Get(f, "time_pressure_score") > 50 THEN 10 ELSE 0,
       IF Get(f, "has_high_risk_attachment") = 1 THEN 20 ELSE 0 >>

\* first definition of _rule_based_detection (lines 207-259); the class body
\* rebinds the name at line 261, so no call ever reaches this one
rule_based_detection_first(f) ==
    LET risk_score == Min(100, SumSeq(LegacyTerms(f)) + SumSeq(NewTerms(f)))
    IN  [score |-> risk_score, type |-> ThreatType(risk_score)]

\* second definition of _rule_based_detection (lines 261-306): the one bound
\* to the name, and so the one analyze_email and _ml_detection call
rule_based_detection(f) ==
    LET risk_score == Min(100, SumSeq(LegacyTerms(f)))
    IN  [score |-> risk_score, type |-> ThreatType(risk_score)]


\* the legacy content-only list of _features_to_array (lines 162-170)
LegacyFeatureNames ==
    << "char_count", "word_count", "sentence_count", "avg_word_length",
       "avg_sentence_length", "uppercase_ratio", "special_char_ratio",
       "phishing_keyword_count", "phishing_keyword_ratio", "high_risk_phrase_count",
       "url_count", "ip_address_count", "email_address_count", "has_url", "has_ip",
       "vocabulary_richness", "max_word_frequency", "max_word_frequency_ratio",
       "urgency_word_count", "urgency_word_ratio", "exclamation_count",
       "question_count", "exclamation_ratio" >>

\* _features_to_array leaving out the names the FeatureMap does not hold
features_to_array_present_only(f, feature_names) ==
    [arr |-> [i \in 1..Len(SelectSeq(feature_names, LAMBDA n : n \in DOMAIN f)) |->
                 f[SelectSeq(feature_names, LAMBDA n : n \in DOMAIN f)[i]]],
     names_used |-> SelectSeq(feature_names, LAMBDA n : n \in DOMAIN f)]

\* _features_to_array: the vector in feature_names order, 0 for a missing key;
\* an absent (None) or empty feature_names, both <<>> here, falls to the
\* legacy list
features_to_array(f, feature_names) ==
    LET names_used == IF feature_names # <<>>
                      THEN feature_names ELSE LegacyFeatureNames
    IN  [arr |-> [i \in 1..Len(names_used) |-> Get(f, names_used[i])],
         names_used |-> names_used]

\* scaler.transform of the bundle's scaler: a standardisation x - mean
scaler_transform(scaler, arr) == [i \in 1..Len(arr) |-> arr[i] - scaler.mean]

\* the steps of the try block of _ml_detection that raise under oracle o
MlRaises(b, o) ==
    \/ o.fail = "vector"
    \/ o.fail = "scaler" /\ b.scaler.present
    \/ o.fail = "predict"

\* _ml_detection whose except branch answers a clean verdict and keeps the
\* vector instead of falling back to the rules
ml_detection_no_fallback(f, b, o) ==
    LET fa == features_to_array(f, b.feature_names)
        threat_score ==
            IF MlRaises(b, o) THEN 0
            ELSE IF b.has_predict_proba
                 THEN IF Len(o.proba) > 1 THEN o.proba[2] ELSE o.proba[1]
                 ELSE o.prediction * 100
    IN  [score |-> threat_score, type |-> ThreatType(threat_score),
         has_array |-> TRUE,
         feature_array |-> IF b.scaler.present
                           THEN scaler_transform(b.scaler, fa.arr) ELSE fa.arr,
         names_used |-> fa.names_used]

\* _ml_detection (lines 174-205); has_array is FALSE where the code returns
\* None for feature_array and feature_names
ml_detection(f, b, o) ==
    IF MlRaises(b, o)
    THEN LET rb == rule_based_detection(f)
         IN  [score |-> rb.score, type |-> rb.type, has_array |-> FALSE,
              feature_array |-> <<>>, names_used |-> <<>>]
    ELSE LET fa == features_to_array(f, b.feature_names)
             feature_array == IF b.scaler.present
                              THEN scaler_transform(b.scaler, fa.arr) ELSE fa.arr
             threat_score ==
                 IF b.has_predict_proba
                 THEN IF Len(o.proba) > 1 THEN o.proba[2] ELSE o.proba[1]
                 ELSE o.prediction * 100
         IN  [score |-> threat_score, type |-> ThreatType(threat_score),
              has_array |-> TRUE,
              feature_array |-> feature_array, names_used |-> fa.names_used]

\* _compute_risk_breakdown (lines 308-310) returns the empty dict
compute_risk_breakdown(f, feature_array, feature_names) == EmptyDict

\* Python truthiness of a dict and of a list
TruthyDict(d) == d # EmptyDict
TruthyList(l) == l # <<>>

\* the prefix tests of _risk_breakdown_from_shap (lines 318-321)
StartsWithUrl(name) == StartsWith(Lower(name), "url_")
StartsWithMeta(name) ==
    \E p \in {"from_", "reply_to_", "subject_"} : StartsWith(Lower(name), p)

RECURSIVE GroupSum(_, _)
\* the sum of max(0, contribution) over the contributions of one group
GroupSum(contributions, grp) ==
    IF contributions = <<>> THEN 0
    ELSE LET c == Head(contributions)
             g == IF StartsWithUrl(c.feature) THEN "url"
                  ELSE IF StartsWithMeta(c.feature) THEN "metadata"
                  ELSE "content"
         IN  (IF g = grp THEN Max(0, c.contribution) ELSE 0)
             + GroupSum(Tail(contributions), grp)

\* _risk_breakdown_from_shap (lines 312-331)
risk_breakdown_from_shap(contributions) ==
    LET content_sum == GroupSum(contributions, "content")
        url_sum == GroupSum(contributions, "url")
        meta_sum == GroupSum(contributions, "metadata")
        total == content_sum + url_sum + meta_sum
    IN  IF total <= 0
        THEN [content |-> 0, url |-> 0, metadata |-> 0]
        ELSE [content |-> Round3(content_sum, total),
              url |-> Round3(url_sum, total),
              metadata |-> Round3(meta_sum, total)]

\* _rule_based_risk_breakdown (lines 333-347); weights in tenths
rule_based_risk_breakdown(f) ==
    LET c == (IF Get(f, "phishing_keyword_count") > 0
                 \/ Get(f, "urgency_word_count") > 0 THEN 5 ELSE 0)
             + (IF Get(f, "url_count") > 0 THEN 2 ELSE 0)
        u == (IF Get(f, "url_count") > 0 THEN 5 ELSE 0)
             + (IF Get(f, "url_brand_impersonation") = 1
                   \/ Get(f, "brand_impersonation") = 1 THEN 5 ELSE 0)
        m == IF Get(f, "sender_has_number") = 1 THEN 2 ELSE 0
        total == c + u + m
    IN  IF total <= 0
        THEN [content |-> 330, url |-> 330, metadata |-> 340]
        ELSE [content |-> Round3(c, total), url |-> Round3(u, total),
              metadata |-> Round3(m, total)]

RECURSIVE InsertByAbs(_, _)
\* insert c after every entry whose |contribution| is at least its own
InsertByAbs(c, sorted) ==
    IF sorted = <<>> THEN <<c>>
    ELSE IF Abs(Head(sorted).contribution) >= Abs(c.contribution)
         THEN <<Head(sorted)>> \o InsertByAbs(c, Tail(sorted))
         ELSE <<c>> \o sorted

RECURSIVE SortByAbs(_)
\* contributions.sort(key=lambda x: -abs(x['contribution'])): a stable sort
SortByAbs(cs) ==
    IF cs = <<>> THEN <<>>
    ELSE InsertByAbs(cs[Len(cs)], SortByAbs(SubSeq(cs, 1, Len(cs) - 1)))

top_k == 15

\* _get_shap_contributions with the list cut before it is sorted
get_shap_contributions_cut_first(b, o, feature_array, feature_names) ==
    IF ~o.shap_available \/ ~b.present THEN <<>>
    ELSE IF ~b.has_predict_proba \/ o.shap_raises THEN <<>>
    ELSE IF o.shap = <<>> THEN <<>>
    ELSE SortByAbs([i \in 1..Min(top_k, Min(Len(feature_names), Len(o.shap))) |->
                       [feature |-> feature_names[i], contribution |-> o.shap[i]]])

\* _get_shap_contributions (lines 349-372)
get_shap_contributions(b, o, feature_array, feature_names) ==
    IF ~o.shap_available \/ ~b.present THEN <<>>
    ELSE IF ~b.has_predict_proba \/ o.shap_raises THEN <<>>
    ELSE IF o.shap = <<>> THEN <<>>
    ELSE LET row == o.shap
             n == Min(Len(feature_names), Len(row))
             contributions == [i \in 1..n |->
                 [feature |-> feature_names[i], contribution |-> row[i]]]
             sorted == SortByAbs(contributions)
         IN  SubSeq(sorted, 1, Min(top_k, Len(sorted)))

\* the messages of _identify_risk_factors with the condition of each
RiskFactorTable(f, digit) ==
    << <<Get(f, "phishing_keyword_count") > 2, "Multiple phishing keywords detected">>,
       <<Get(f, "high_risk_phrase_count") > 0, "High-risk phrases found">>,
       <<Get(f, "url_count") > 5, "Excessive number of URLs">>,
       <<Get(f, "ip_address_count") > 0, "Direct IP addresses in links">>,
       <<Get(f, "urgency_word_count") > 3, "Urgency manipulation detected">>,
       <<Get(f, "exclamation_count") > 3, "Excessive punctuation (emotional manipulation)">>,
       <<digit, "Suspicious sender address with numbers">>,
       <<Get(f, "uppercase_ratio") > 30, "Excessive use of uppercase letters">>,
       <<Get(f, "grammar_anomaly_score") > 50,
         "Grammar or spelling anomalies (possible machine-generated)">>,
       <<Get(f, "brand_impersonation") = 1 \/ Get(f, "url_brand_impersonation") = 1,
         "Possible brand impersonation in URL">>,
       <<Get(f, "cta_intensity") > 50, "Strong call-to-action pressure">>,
       <<Get(f, "time_pressure_score") > 50, "Time-pressure or urgency tactics">>,
       <<Get(f, "has_high_risk_attachment") = 1, "High-risk attachment type detected">> >>

RECURSIVE Labels(_)
Labels(rows) == IF rows = <<>> THEN <<>>
                ELSE <<Head(rows)[2]>> \o Labels(Tail(rows))

\* _identify_risk_factors (lines 429-470)
identify_risk_factors(f, digit) ==
    Labels(SelectSeq(RiskFactorTable(f, digit), LAMBDA row : row[1]))

\* _generate_recommendations (lines 472-494)
generate_recommendations(threat_score, risk_factors) ==
    IF threat_score >= 80
    THEN << "HIGH RISK - Do not interact with this email",
            "Do not click any links or download attachments",
            "Mark as spam or phishing immediately",
            "Consider reporting to your IT security team" >>
    ELSE IF threat_score >= 60
    THEN << "MEDIUM RISK - Exercise extreme caution",
            "Verify sender identity through alternate channel",
            "Do not provide any personal information",
            "Hover over links to check destination before clicking" >>
    ELSE IF threat_score >= 40
    THEN << "LOW RISK - Be cautious",
            "Verify sender if requesting sensitive actions",
            "Check for official communication through legitimate channels" >>
    ELSE << "Email appears legitimate",
            "Always remain vigilant with unexpected requests" >>

\* _calculate_confidence from the score alone
calculate_confidence_score_only(threat_score, risk_factors) ==
    IF threat_score >= 80 THEN "high"
    ELSE IF threat_score >= 60 THEN "medium"
    ELSE "low"

\* _calculate_confidence (lines 496-504)
calculate_confidence(threat_score, risk_factors) ==
    IF threat_score >= 80 \/ Len(risk_factors) >= 4 THEN "high"
    ELSE IF threat_score >= 60 \/ Len(risk_factors) >= 2 THEN "medium"
    ELSE "low"

\* analyze_email from the FeatureMap on: detection, risk factors,
\* recommendations, confidence, contributions and breakdown (lines 90-111)
\* and the fields of the returned dict they fill (lines 124-136)
score_features(f, digit, b, o) ==
    LET det == IF b.present THEN ml_detection(f, b, o)
               ELSE [score |-> rule_based_detection(f).score,
                     type |-> rule_based_detection(f).type, has_array |-> FALSE,
                     feature_array |-> <<>>, names_used |-> <<>>]
        risk_factors == identify_risk_factors(f, digit)
        rb0 == compute_risk_breakdown(f, det.feature_array, det.names_used)
        attributed == det.has_array /\ TruthyList(det.names_used)
                      /\ o.shap_available /\ b.present
        feature_contributions ==
            IF attributed
            THEN get_shap_contributions(b, o, det.feature_array, det.names_used)
            ELSE <<>>
        rb1 == IF attributed /\ ~TruthyDict(rb0) /\ TruthyList(feature_contributions)
               THEN risk_breakdown_from_shap(feature_contributions) ELSE rb0
        risk_breakdown == IF ~TruthyDict(rb1) THEN rule_based_risk_breakdown(f) ELSE rb1
    IN  [is_threat |-> det.score >= 50,
         threat_score |-> det.score,
         threat_type |-> det.type,
         confidence |-> calculate_confidence(det.score, risk_factors),
         risk_factors |-> risk_factors,
         recommendations |-> generate_recommendations(det.score, risk_factors),
         features |-> f,
         risk_breakdown |-> risk_breakdown,
         feature_contributions |-> feature_contributions]


----------------------------------------------------------------------------
(* URL Analyzer: url_analyzer.py *)

_WHOIS_CACHE_TTL == 86400

\* BRAND_CANONICAL (lines 25-46): brand token and canonical domain label
BRAND_CANONICAL ==
    << <<"paypal", "paypal">>, <<"amazon", "amazon">>, <<"microsoft", "microsoft">>,
       <<"apple", "apple">>, <<"google", "google">>, <<"facebook", "facebook">>,
       <<"netflix", "netflix">>, <<"bankofamerica", "bankofamerica">>,
       <<"chase", "chase">>, <<"wellsfargo", "wellsfargo">>, <<"ebay", "ebay">>,
       <<"linkedin", "linkedin">>, <<"twitter", "twitter">>, <<"x.com", "x">>,
       <<"instagram", "instagram">>, <<"dropbox", "dropbox">>, <<"adobe", "adobe">>,
       <<"dhl", "dhl">>, <<"fedex", "fedex">>, <<"ups", "ups">> >>
SECURE_DECEPTIVE_WORDS == {"secure", "safe", "verified", "official", "ssl", "trusted"}
suspicious_tlds == {"tk", "ml", "ga", "cf", "gq", "xyz", "top", "click"}

\* the value standing for Python's None where a URL is expected
NoneUrl == "\\None"

SchemeChars == Letters \cup Digits \cup {"+", "-", "."}

\* urllib.parse.urlparse for URLs without ';' parameters (line 73)
urlparse(url) ==
    LET i == FirstOf(url, {":"})
        has_scheme == /\ i > 1 /\ i <= Len(url)
                      /\ Ch(url, 1) \in Letters
                      /\ \A j \in 1..(i - 1) : Ch(url, j) \in SchemeChars
        \* path and query of what is left of the fragment
        SplitQuery(scheme, netloc, rest2, fragment) ==
            LET q == FirstOf(rest2, {"?"})
            IN  [scheme |-> scheme, netloc |-> netloc,
                 path |-> SubSeq(rest2, 1, q - 1),
                 query |-> SubSeq(rest2, q + 1, Len(rest2)),
                 fragment |-> fragment]
        \* the fragment of what follows the netloc
        SplitFragment(scheme, netloc, rest1) ==
            LET h == FirstOf(rest1, {"#"})
            IN  SplitQuery(scheme, netloc, SubSeq(rest1, 1, h - 1),
                           SubSeq(rest1, h + 1, Len(rest1)))
        \* the netloc of what follows '//'
        SplitNetloc(scheme, after) ==
            LET d == FirstOf(after, {"/", "?", "#"})
            IN  SplitFragment(scheme, SubSeq(after, 1, d - 1),
                              SubSeq(after, d, Len(after)))
        AfterScheme(scheme, rest0) ==
            IF StartsWith(rest0, "//")
            THEN SplitNetloc(scheme, SubSeq(rest0, 3, Len(rest0)))
            ELSE SplitFragment(scheme, "", rest0)
    IN  IF has_scheme
        THEN AfterScheme(Lower(SubSeq(url, 1, i - 1)), SubSeq(url, i + 1, Len(url)))
        ELSE AfterScheme("", url)

\* the text after the first ':' of the host part of netloc; "" when there
\* is none (urllib's _hostinfo turns an empty port into None)
PortText(netloc) ==
    LET at == IF Contains(netloc, "@")
              THEN CHOOSE i \in 1..Len(netloc) :
                       Ch(netloc, i) = "@"
                       /\ \A j \in (i + 1)..Len(netloc) : Ch(netloc, j) # "@"
              ELSE 0
        hostinfo == SubSeq(netloc, at + 1, Len(netloc))
        c == FirstOf(hostinfo, {":"})
    IN  SubSeq(hostinfo, c + 1, Len(hostinfo))

\* parsed.port raises ValueError: a port that is not a number in 0..65535
PortRaises(parsed) ==
    LET port == PortText(parsed.netloc)
    IN  port # "" /\ (~IsDigits(port) \/ ToInt(port) > 65535)

\* str(e) of that ValueError
PortError(parsed) ==
    IF IsDigits(PortText(parsed.netloc)) THEN "Port out of range 0-65535"
    ELSE "Port could not be cast to integer value as '"
         \o PortText(parsed.netloc) \o "'"

\* _is_ip_address (lines 331-337)
is_ip_address(domain) ==
    LET parts == Split(domain, ".")
    IN  /\ Len(parts) = 4
        /\ \A i \in 1..4 : IsDigits(parts[i]) /\ Len(parts[i]) <= 3
        /\ \A i \in 1..4 : ToInt(parts[i]) <= 255

\* the public suffixes of the hosts of the model
PublicSuffixes == {"com", "org", "net", "tk", "xyz"}

\* tldextract.extract (line 74): subdomain, registrable label and public
\* suffix of the URL's host; an IPv4 host is all domain, with no suffix
tldextract(url) ==
    LET i == Find(url, "://")
        OfLabels(host, labels, n) ==
            IF host = "" THEN [subdomain |-> "", domain |-> "", suffix |-> ""]
            ELSE IF is_ip_address(host)
                 THEN [subdomain |-> "", domain |-> host, suffix |-> ""]
            ELSE IF Lower(labels[n]) \in PublicSuffixes
                 THEN [subdomain |-> Join(SubSeq(labels, 1, n - 2), "."),
                       domain |-> IF n >= 2 THEN labels[n - 1] ELSE "",
                       suffix |-> labels[n]]
            ELSE [subdomain |-> Join(SubSeq(labels, 1, n - 1), "."),
                  domain |-> labels[n], suffix |-> ""]
        OfSplit(host, labels) == OfLabels(host, labels, Len(labels))
        OfHost(host) == OfSplit(host, Split(host, "."))
        OfNoUser(nouser) == OfHost(SubSeq(nouser, 1, FirstOf(nouser, {":"}) - 1))
        OfHostPort(hostport) ==
            LET at == IF Contains(hostport, "@")
                      THEN CHOOSE k \in 1..Len(hostport) :
                               Ch(hostport, k) = "@"
                               /\ \A j \in (k + 1)..Len(hostport) :
                                      Ch(hostport, j) # "@"
                      ELSE 0
            IN  OfNoUser(SubSeq(hostport, at + 1, Len(hostport)))
        OfSchemeless(schemeless) ==
            OfHostPort(SubSeq(schemeless, 1,
                              FirstOf(schemeless, {"/", "?", "#"}) - 1))
    IN  OfSchemeless(
            IF StartsWith(url, "//") THEN SubSeq(url, 3, Len(url))
            ELSE IF i > 1 /\ \A j \in 1..(i - 1) : Ch(url, j) \in SchemeChars
                 THEN SubSeq(url, i + 3, Len(url))
            ELSE url)

\* _extract_domain_features (lines 235-261)
extract_domain_features(extracted, parsed) ==
    [is_suspicious_tld |-> IF Lower(extracted.suffix) \in suspicious_tlds THEN 1 ELSE 0,
     domain_entropy |-> Entropy(extracted.domain),
     has_ip_address |-> IF is_ip_address(extracted.domain) THEN 1 ELSE 0,
     num_subdomains |->
         IF extracted.subdomain # ""
         THEN Len(SelectSeq(Split(extracted.subdomain, "."), LAMBDA x : x # ""))
         ELSE 0]

RECURSIVE RemoveChars(_, _)
RemoveChars(s, cs) ==
    IF s = "" THEN ""
    ELSE (IF Head(s) \in cs THEN "" ELSE Head(s)) \o RemoveChars(Tail(s), cs)

\* _extract_path_features (lines 263-294)
extract_path_features(path) ==
    IF path = "" \/ path = "/"
    THEN [path_entropy |-> 0, num_path_segments |-> 0, has_suspicious_path |-> 0]
    ELSE [path_entropy |-> Entropy(RemoveChars(path, {"/", "-", "_"})),
          num_path_segments |-> Len(SelectSeq(Split(path, "/"), LAMBDA x : x # "")),
          has_suspicious_path |->
              IF \E pat \in {"login", "verify", "account", "confirm", "update", "secure"} :
                     Contains(Lower(path), pat)
              THEN 1 ELSE 0]

\* the parameter names parse_qs keeps: those of the pairs with a value
QueryNames(query) ==
    LET pairs == Split(query, "&")
    IN  {SubSeq(pairs[i], 1, FirstOf(pairs[i], {"="}) - 1) :
            i \in {j \in 1..Len(pairs) :
                      FirstOf(pairs[j], {"="}) < Len(pairs[j])}}

\* _extract_query_features (lines 296-314)
extract_query_features(query) ==
    IF query = ""
    THEN [num_query_params |-> 0, has_suspicious_query |-> 0]
    ELSE [num_query_params |-> Cardinality(QueryNames(query)),
          has_suspicious_query |->
              IF \E prm \in {"token", "key", "id", "user", "pass", "password",
                             "login", "auth"} : Contains(Lower(query), prm)
              THEN 1 ELSE 0]

\* _extract_suspicious_patterns (lines 316-329)
extract_suspicious_patterns(url) ==
    [shortened_url |->
         IF \E sh \in {"bit.ly", "tinyurl", "t.co", "goo.gl", "ow.ly", "short.link"} :
                Contains(Lower(url), sh)
         THEN 1 ELSE 0,
     has_typosquatting |-> 0]

\* the check without the comparison with the canonical domain
check_brand_impersonation_any_mention(extracted, url) ==
    IF \E i \in 1..Len(BRAND_CANONICAL) :
           Contains(Lower(url), BRAND_CANONICAL[i][1])
    THEN 1 ELSE 0

\* _check_brand_impersonation (lines 185-195)
check_brand_impersonation(extracted, url) ==
    LET domain_lower == Lower(extracted.domain)
        url_lower == Lower(url)
    IN  IF \E i \in 1..Len(BRAND_CANONICAL) :
               /\ Contains(url_lower, BRAND_CANONICAL[i][1])
               /\ domain_lower # BRAND_CANONICAL[i][2]
        THEN 1 ELSE 0

\* the empty feature set without the keys added with the WHOIS and brand
\* features
empty_features_short ==
    [url_length |-> 0, domain_length |-> 0, path_length |-> 0, query_length |-> 0,
     num_dots |-> 0, num_hyphens |-> 0, num_underscores |-> 0, num_slashes |-> 0,
     num_question_marks |-> 0, num_equals |-> 0, num_ampersands |-> 0,
     num_percent |-> 0, has_https |-> 0, has_port |-> 0, has_path |-> 0,
     has_query |-> 0, has_fragment |-> 0, is_suspicious_tld |-> 0,
     domain_entropy |-> 0, has_ip_address |-> 0, num_subdomains |-> 0,
     path_entropy |-> 0, num_path_segments |-> 0, has_suspicious_path |-> 0,
     num_query_params |-> 0, has_suspicious_query |-> 0, shortened_url |-> 0,
     has_typosquatting |-> 0]

\* _empty_features (lines 197-233)
empty_features ==
    [url_length |-> 0, domain_length |-> 0, path_length |-> 0, query_length |-> 0,
     num_dots |-> 0, num_hyphens |-> 0, num_underscores |-> 0, num_slashes |-> 0,
     num_question_marks |-> 0, num_equals |-> 0, num_ampersands |-> 0,
     num_percent |-> 0, has_https |-> 0, has_port |-> 0, has_path |-> 0,
     has_query |-> 0, has_fragment |-> 0, is_suspicious_tld |-> 0,
     domain_entropy |-> 0, has_ip_address |-> 0, num_subdomains |-> 0,
     path_entropy |-> 0, num_path_segments |-> 0, has_suspicious_path |-> 0,
     num_query_params |-> 0, has_suspicious_query |-> 0, shortened_url |-> 0,
     has_typosquatting |-> 0, domain_age_days |-> 0, domain_recently_updated |-> 0,
     brand_impersonation |-> 0, has_https_but_suspicious |-> 0,
     deceptive_secure_language |-> 0]

\* dict.update: the keys of b over those of a
Update(a, b) ==
    [k \in DOMAIN a \cup DOMAIN b |-> IF k \in DOMAIN b THEN b[k] ELSE a[k]]

\* the features and the cache entry of an unknown or failed lookup
WhoisDefault == [age_days |-> 0, recently_updated |-> 0]

SecondsPerDay == 86400

\* (now - date).days of lines 169 and 176, the date and now in seconds
DaysSince(t, date) == (t - date) \div SecondsPerDay

\* the cache key of _extract_whois_features (lines 139, 142)
WhoisKey(extracted) == Lower(extracted.domain \o "." \o extracted.suffix)

\* a lookup that raises or runs into the timeout
WhoisRaises == [raises |-> TRUE, has_creation |-> FALSE, creation_date |-> 0,
                has_updated |-> FALSE, updated_date |-> 0]

\* the lookup without the cache: every call asks again, none stores
extract_whois_features_uncached(extracted, c, t, available, answer) ==
    IF extracted.suffix \in {"", "local"} \/ ~available \/ answer.raises
    THEN [features |-> WhoisDefault, cache |-> c, looked_up |-> FALSE]
    ELSE [features |->
              [age_days |-> IF answer.has_creation
                            THEN Max(0, DaysSince(t, answer.creation_date)) ELSE 0,
               recently_updated |->
                   IF answer.has_updated /\ DaysSince(t, answer.updated_date) <= 90
                   THEN 1 ELSE 0],
          cache |-> c, looked_up |-> TRUE]

\* _extract_whois_features (lines 136-183) at time t with cache c; answer is
\* what whois.whois gives for the domain within the timeout: it raises (an
\* error or the timeout), or it gives the record's dates
extract_whois_features(extracted, c, t, available, answer) ==
    LET cache_key == WhoisKey(extracted)
    IN  IF extracted.suffix \in {"", "local"}
        THEN [features |-> WhoisDefault, cache |-> c, looked_up |-> FALSE]
        ELSE IF cache_key \in DOMAIN c /\ t - c[cache_key].ts < _WHOIS_CACHE_TTL
        THEN [features |-> [age_days |-> c[cache_key].age_days,
                            recently_updated |-> c[cache_key].recently_updated],
              cache |-> c, looked_up |-> FALSE]
        ELSE IF ~available
        THEN [features |-> WhoisDefault, cache |-> c, looked_up |-> FALSE]
        ELSE LET got ==
                     IF answer.raises THEN WhoisDefault
                     ELSE [age_days |->
                               IF answer.has_creation
                               THEN Max(0, DaysSince(t, answer.creation_date))
                               ELSE 0,
                           recently_updated |->
                               IF answer.has_updated
                                  /\ DaysSince(t, answer.updated_date) <= 90
                               THEN 1 ELSE 0]
             IN  [features |-> got,
                  cache |-> Update(c, [k \in {cache_key} |->
                                          [ts |-> t, age_days |-> got.age_days,
                                           recently_updated |-> got.recently_updated]]),
                  looked_up |-> TRUE]

\* URLAnalyzer.extract_features (lines 59-134): raised is TRUE where the
\* call raises (parsed.port, line 96), and then the cache is as it was
url_extract_features(url, c, t, available, registry) ==
    LET \* lines 121-134 over the features gathered so far
        Last(parsed, extracted, f5, w, path_query) ==
            [raised |-> FALSE, error |-> "",
             features |->
                 Update(f5,
                     [brand_impersonation |->
                          check_brand_impersonation(extracted, url),
                      has_https_but_suspicious |->
                          IF f5.has_https = 1
                             /\ (f5.is_suspicious_tld = 1 \/ f5.has_ip_address = 1)
                          THEN 1 ELSE 0,
                      deceptive_secure_language |->
                          IF \E wd \in SECURE_DECEPTIVE_WORDS :
                                 Contains(path_query, wd)
                          THEN 1 ELSE 0]),
             cache |-> w.cache]
        \* lines 117-119 after the WHOIS step w
        WithWhois(parsed, extracted, f4, w) ==
            Last(parsed, extracted,
                 Update(f4, [domain_age_days |-> w.features.age_days,
                             domain_recently_updated |->
                                 w.features.recently_updated]),
                 w, Lower(parsed.path \o " " \o parsed.query))
        WithKey(parsed, extracted, f4, key) ==
            WithWhois(parsed, extracted, f4,
                      extract_whois_features(
                          extracted, c, t, available,
                          IF key \in DOMAIN registry THEN registry[key]
                          ELSE WhoisRaises))
        \* lines 76-115
        Features(parsed, extracted) ==
            WithKey(parsed, extracted,
                Update(Update(Update(Update(
                    [url_length |-> Len(url),
                     domain_length |-> Len(extracted.domain),
                     path_length |-> Len(parsed.path),
                     query_length |-> Len(parsed.query),
                     num_dots |-> CountChar(url, "."),
                     num_hyphens |-> CountChar(url, "-"),
                     num_underscores |-> CountChar(url, "_"),
                     num_slashes |-> CountChar(url, "/"),
                     num_question_marks |-> CountChar(url, "?"),
                     num_equals |-> CountChar(url, "="),
                     num_ampersands |-> CountChar(url, "&"),
                     num_percent |-> CountChar(url, "%"),
                     has_https |-> IF parsed.scheme = "https" THEN 1 ELSE 0,
                     has_port |-> IF PortText(parsed.netloc) # "" THEN 1 ELSE 0,
                     has_path |-> IF parsed.path # "" /\ parsed.path # "/"
                                  THEN 1 ELSE 0,
                     has_query |-> IF parsed.query # "" THEN 1 ELSE 0,
                     has_fragment |-> IF parsed.fragment # "" THEN 1 ELSE 0],
                    extract_domain_features(extracted, parsed)),
                    extract_path_features(parsed.path)),
                    extract_query_features(parsed.query)),
                    extract_suspicious_patterns(url)),
                WhoisKey(extracted))
        Parsed(parsed, extracted) ==
            IF PortRaises(parsed)
            THEN [raised |-> TRUE, error |-> PortError(parsed),
                  features |-> empty_features, cache |-> c]
            ELSE Features(parsed, extracted)
    IN  IF url = NoneUrl \/ url = ""
        THEN [raised |-> FALSE, error |-> "", features |-> empty_features,
              cache |-> c]
        ELSE Parsed(urlparse(url), tldextract(url))

----------------------------------------------------------------------------
(* Email Analyzer: email_analyzer.py.  The model keeps the content keys   *)
(* that the scoring engine, the risk factors and the breakdown read.       *)

Whitespace == {" ", "\n", "\t", "\r"}

\* the matches of 'http[s]?://[^S]+|www\.[^S]+' in text, S the set stops, as
\* re.findall and re.finditer find them from left to right: each match by
\* its first index and the index after its last (1-based)
UrlMatches(text, stops) ==
    LET Pre(i) == IF SubSeq(text, i, Min(Len(text), i + 7)) = "https://" THEN 8
                  ELSE IF SubSeq(text, i, Min(Len(text), i + 6)) = "http://" THEN 7
                  ELSE IF SubSeq(text, i, Min(Len(text), i + 3)) = "www." THEN 4
                  ELSE 0
        \* the pattern matches at i: a prefix and one character at least
        At(i) == Pre(i) > 0 /\ i + Pre(i) <= Len(text)
                 /\ Ch(text, i + Pre(i)) \notin stops
        End(i) == i + Pre(i) - 1
                  + FirstOf(SubSeq(text, i + Pre(i), Len(text)), stops)
        \* a match starts where the pattern matches outside an earlier match
        Starts(at) == {i \in at : \A j \in at : j < i => End(j) <= i}
        Matches(starts) ==
            [k \in 1..Len(starts) |-> [from |-> starts[k], to |-> End(starts[k])]]
    IN  Matches(Ascending(Starts({i \in 1..Len(text) : At(i)})))

\* re.findall of 'http[s]?://[^S]+|www\.[^S]+' where S is the set stops
FindUrls(text, stops) ==
    LET Texts(ms) == [k \in 1..Len(ms) |-> SubSeq(text, ms[k].from, ms[k].to - 1)]
    IN  Texts(UrlMatches(text, stops))

WordChars == Letters \cup Digits \cup {"_"}

\* the length of the run of at most three digits that starts s
DigitRun(s) ==
    IF Len(s) >= 3 /\ IsDigits(SubSeq(s, 1, 3)) THEN 3
    ELSE IF Len(s) >= 2 /\ IsDigits(SubSeq(s, 1, 2)) THEN 2
    ELSE IF Len(s) >= 1 /\ IsDigits(SubSeq(s, 1, 1)) THEN 1 ELSE 0

\* the length of the match of '\d{1,3}\.\d{1,3}\.\d{1,3}\.\d{1,3}\b' at the
\* start of s, 0 when it does not match there
IpMatchLen(s) ==
    LET a == DigitRun(s)
        s2 == SubSeq(s, a + 2, Len(s))
        b == DigitRun(s2)
        s3 == SubSeq(s2, b + 2, Len(s2))
        c == DigitRun(s3)
        s4 == SubSeq(s3, c + 2, Len(s3))
        d == DigitRun(s4)
    IN  IF /\ a > 0 /\ Ch(s, a + 1) = "."
           /\ b > 0 /\ Ch(s2, b + 1) = "."
           /\ c > 0 /\ Ch(s3, c + 1) = "."
           /\ d > 0 /\ (Len(s4) = d \/ Ch(s4, d + 1) \notin WordChars)
        THEN a + b + c + d + 3 ELSE 0

RECURSIVE CountIps(_, _)
\* len(re.findall(ip_pattern, text)); before is the character before text
CountIps(text, before) ==
    LET At(i) == /\ (IF i = 1 THEN before ELSE Ch(text, i - 1)) \notin WordChars
                 /\ IpMatchLen(SubSeq(text, i, Len(text))) > 0
        After(i, n) ==
            1 + CountIps(SubSeq(text, i + n, Len(text)), Ch(text, i + n - 1))
        From(at) ==
            IF at = {} THEN 0
            ELSE \* the leftmost match, then the matches after it
                 After(CHOOSE i \in at : \A j \in at : i <= j,
                       IpMatchLen(SubSeq(text, CHOOSE i \in at : \A j \in at : i <= j,
                                         Len(text))))
    IN  From({i \in 1..Len(text) : At(i)})

phishing_keywords ==
    {"urgent", "verify", "suspend", "account", "click", "login", "confirm",
     "update", "password", "security", "bank", "paypal", "amazon", "ebay",
     "irs", "tax", "suspended", "locked", "expire", "immediately",
     "action required", "verify your account", "click here", "verify now",
     "limited time", "act now"}
high_risk_phrases ==
    {"verify your account", "click here", "verify now", "account suspended",
     "password expired", "update payment", "confirm your identity"}
urgency_words ==
    {"urgent", "immediate", "asap", "now", "today", "expire", "expired",
     "suspended", "locked", "verify", "confirm", "update", "action required"}

\* sum(1 for w in words if w in text)
CountIn(words, text) == Cardinality({w \in words : Contains(text, w)})

\* the content features of the subject alone
email_extract_features_subject_only(body, subject) ==
    LET text == Lower(subject)
        url_count == Len(FindUrls(text, Whitespace))
        ip_address_count == CountIps(text, " ")
    IN  [char_count |-> Len(text),
         uppercase_ratio |-> 0,
         phishing_keyword_count |-> CountIn(phishing_keywords, text),
         high_risk_phrase_count |-> CountIn(high_risk_phrases, text),
         url_count |-> url_count,
         ip_address_count |-> ip_address_count,
         has_url |-> IF url_count > 0 THEN 1 ELSE 0,
         has_ip |-> IF ip_address_count > 0 THEN 1 ELSE 0,
         urgency_word_count |-> CountIn(urgency_words, text),
         exclamation_count |-> CountChar(text, "!"),
         question_count |-> CountChar(text, "?")]

\* EmailAnalyzer.extract_features (lines 72-130) on a text without markup
email_extract_features(body, subject) ==
    LET text == Lower(subject \o " " \o body)
        url_count == Len(FindUrls(text, Whitespace))
        ip_address_count == CountIps(text, " ")
    IN  [char_count |-> Len(text),
         uppercase_ratio |->
             (100 * Cardinality({i \in 1..Len(text) :
                                    \E u \in 1..26 : Upper[u] = Ch(text, i)}))
             \div Len(text),
         phishing_keyword_count |-> CountIn(phishing_keywords, text),
         high_risk_phrase_count |-> CountIn(high_risk_phrases, text),
         url_count |-> url_count,
         ip_address_count |-> ip_address_count,
         has_url |-> IF url_count > 0 THEN 1 ELSE 0,
         has_ip |-> IF ip_address_count > 0 THEN 1 ELSE 0,
         urgency_word_count |-> CountIn(urgency_words, text),
         exclamation_count |-> CountChar(text, "!"),
         question_count |-> CountChar(text, "?")]

----------------------------------------------------------------------------
(* Metadata Analyzer: metadata_analyzer.py *)

trusted_providers == {"gmail.com", "outlook.com", "yahoo.com", "aol.com",
                      "icloud.com", "protonmail.com", "hotmail.com"}

\* len(s.split()): the number of maximal runs of non-whitespace characters
WordCount(s) ==
    Cardinality({i \in 1..Len(s) :
                    /\ Ch(s, i) \notin Whitespace
                    /\ (i = 1 \/ Ch(s, i - 1) \in Whitespace)})

\* s.isupper(): a cased character, and no lower-case one
IsUpper(s) ==
    /\ \E i \in 1..Len(s) : \E u \in 1..26 : Upper[u] = Ch(s, i)
    /\ \A i \in 1..Len(s) : \A l \in 1..26 : Lowers[l] # Ch(s, i)

\* {prefix + k: v for k, v in f.items()}
Prefixed(prefix, f) ==
    [kk \in {prefix \o k : k \in DOMAIN f} |-> f[SubSeq(kk, Len(prefix) + 1, Len(kk))]]

\* _extract_address_features (lines 59-114) for an address given without a
\* display name, which parseaddr returns as it is
extract_address_features(email_address) ==
    LET at == FirstOf(email_address, {"@"})
        local_part == SubSeq(email_address, 1, at - 1)
        domain == SubSeq(email_address, at + 1, Len(email_address))
        zero == [address_length |-> 0, local_part_length |-> 0, domain_length |-> 0,
                 has_plus |-> 0, has_dots |-> 0, has_numbers |-> 0,
                 has_hyphens |-> 0, has_underscores |-> 0,
                 is_trusted_provider |-> 0, num_subdomains |-> 0,
                 suspicious_pattern |-> 0]
        Flag(b) == IF b THEN 1 ELSE 0
    IN  IF email_address = "" \/ at > Len(email_address) THEN zero
        ELSE [address_length |-> Len(email_address),
              local_part_length |-> Len(local_part),
              domain_length |-> Len(domain),
              has_plus |-> Flag(Contains(local_part, "+")),
              has_dots |-> Flag(Contains(local_part, ".")),
              has_numbers |-> Flag(\E i \in 1..Len(local_part) :
                                      Ch(local_part, i) \in Digits),
              has_hyphens |-> Flag(Contains(local_part, "-") \/ Contains(domain, "-")),
              has_underscores |-> Flag(Contains(local_part, "_")),
              is_trusted_provider |-> Flag(Lower(domain) \in trusted_providers),
              num_subdomains |-> Max(0, Len(Split(domain, ".")) - 2),
              suspicious_pattern |->
                  Flag(/\ Len(local_part) > 10
                       /\ 10 * Cardinality({Ch(local_part, i) : i \in 1..Len(local_part)})
                          > 7 * Len(local_part))]

\* _extract_mismatch_features (lines 116-138)
extract_mismatch_features(from_address, reply_to) ==
    LET DomainOf(a) == Lower(SubSeq(a, FirstOf(a, {"@"}) + 1, Len(a)))
    IN  IF reply_to = "" THEN [reply_to_mismatch |-> 0, reply_to_empty |-> 1]
        ELSE [reply_to_mismatch |->
                  IF /\ Contains(from_address, "@") /\ Contains(reply_to, "@")
                     /\ DomainOf(from_address) # DomainOf(reply_to)
                  THEN 1 ELSE 0,
              reply_to_empty |-> 0]

\* _extract_subject_features (lines 140-175)
extract_subject_features(subject) ==
    LET subject_lower == Lower(subject)
        Flag(b) == IF b THEN 1 ELSE 0
    IN  IF subject = ""
        THEN [subject_length |-> 0, subject_word_count |-> 0,
              subject_has_urgency |-> 0, subject_has_question |-> 0,
              subject_has_exclamation |-> 0, subject_all_caps |-> 0,
              subject_suspicious_words |-> 0]
        ELSE [subject_length |-> Len(subject),
              subject_word_count |-> WordCount(subject),
              subject_has_urgency |->
                  Flag(\E w \in {"urgent", "immediate", "asap", "important",
                                 "action required", "verify"} :
                           Contains(subject_lower, w)),
              subject_has_question |-> Flag(Contains(subject, "?")),
              subject_has_exclamation |-> Flag(Contains(subject, "!")),
              subject_all_caps |-> Flag(IsUpper(subject) /\ WordCount(subject) > 2),
              subject_suspicious_words |->
                  CountIn({"verify", "confirm", "update", "suspended", "locked",
                           "expire"}, subject_lower)]

\* _extract_header_features (lines 177-205); headers is the sequence of the
\* names of the headers dict
extract_header_features(headers) ==
    LET header_keys == [i \in 1..Len(headers) |-> Lower(headers[i])]
        AnyKey(w) == IF \E i \in 1..Len(header_keys) : Contains(header_keys[i], w)
                  THEN 1 ELSE 0
    IN  [has_spf |-> AnyKey("spf"), has_dkim |-> AnyKey("dkim"), has_dmarc |-> AnyKey("dmarc"),
         has_mime_version |-> AnyKey("mime-version"),
         has_content_type |-> AnyKey("content-type"),
         num_headers |-> Len(header_keys)]

\* MetadataAnalyzer.extract_features (lines 19-57); an absent or empty
\* headers dict is <<>>
metadata_extract_features(from_address, reply_to, subject, headers) ==
    LET f1 == Prefixed("from_", extract_address_features(from_address))
        f2 == IF reply_to # ""
              THEN Update(f1, Prefixed("reply_to_", extract_address_features(reply_to)))
              ELSE f1
        f3 == Update(f2, extract_mismatch_features(from_address, reply_to))
        f4 == Update(f3, extract_subject_features(subject))
    IN  IF headers # <<>> THEN Update(f4, extract_header_features(headers)) ELSE f4

----------------------------------------------------------------------------
(* Feature Extractor: feature_extractor.py *)

\* _extract_urls_from_text (lines 144-152)
extract_urls_from_text(text) ==
    FindUrls(text, Whitespace \cup {"<", ">", "\"", "'", ")"})

RECURSIVE UrlFeatureList(_, _, _, _, _)
\* the loop of lines 166-169: the features of each URL in turn, the cache
\* threaded through the calls; raised where one of the calls raises
UrlFeatureList(urls, c, t, available, registry) ==
    LET Both(first, rest) ==
            [raised |-> rest.raised, error |-> rest.error,
             list |-> <<first.features>> \o rest.list, cache |-> rest.cache]
        After(first) ==
            IF first.raised
            THEN [raised |-> TRUE, error |-> first.error, list |-> <<>>,
                  cache |-> first.cache]
            ELSE Both(first, UrlFeatureList(Tail(urls), first.cache, t, available,
                                            registry))
    IN  IF urls = <<>>
        THEN [raised |-> FALSE, error |-> "", list |-> <<>>, cache |-> c]
        ELSE After(url_extract_features(Head(urls), c, t, available, registry))

\* max(values) and sum(values) over the feature key of the list
MaxOf(list, key) ==
    CHOOSE m \in {list[i][key] : i \in 1..Len(list)} :
        \A i \in 1..Len(list) : list[i][key] <= m
SumOf(list, key) == SumSeq([i \in 1..Len(list) |-> list[i][key]])

\* sum(values) / len(values), kept as the fraction
Mean(list, key) == [num |-> SumOf(list, key), den |-> Len(list)]

\* the test of line 188 on a feature key
IsCountStyle(key) ==
    \E w \in {"count", "has_", "is_", "num_"} : Contains(key, w)

RECURSIVE Aggregate_max_only(_, _)
\* the aggregation that gives counts and flags their maximum only
Aggregate_max_only(list, keys) ==
    IF keys = {} THEN <<>>
    ELSE LET key == CHOOSE k \in keys : TRUE
             pair == IF IsCountStyle(key)
                     THEN ("url_max_" \o key) :> MaxOf(list, key)
                     ELSE ("url_avg_" \o key) :> Mean(list, key)
                          @@ ("url_max_" \o key) :> MaxOf(list, key)
         IN  Update(Aggregate_max_only(list, keys \ {key}), pair)

RECURSIVE Aggregate(_, _)
\* the loop of lines 184-194 over the feature keys of the first URL
Aggregate(list, keys) ==
    IF keys = {} THEN <<>>
    ELSE LET key == CHOOSE k \in keys : TRUE
             pair == IF IsCountStyle(key)
                     THEN ("url_max_" \o key) :> MaxOf(list, key)
                          @@ ("url_avg_" \o key) :> Mean(list, key)
                     ELSE ("url_avg_" \o key) :> Mean(list, key)
                          @@ ("url_max_" \o key) :> MaxOf(list, key)
         IN  Update(Aggregate(list, keys \ {key}), pair)

\* _extract_url_features (lines 154-199) on a list of URLs
extract_url_features(urls, c, t, available, registry) ==
    LET OfList(l) ==
            IF l.raised
            THEN [raised |-> TRUE, error |-> l.error, features |-> <<>>,
                  cache |-> l.cache]
            ELSE [raised |-> FALSE, error |-> "",
                  features |->
                      Update(IF Len(urls) = 1
                             THEN Prefixed("url_", l.list[1])
                             ELSE Aggregate(l.list, DOMAIN l.list[1]),
                             [url_count |-> Len(urls)]),
                  cache |-> l.cache]
    IN  IF urls = <<>>
        THEN [raised |-> FALSE, error |-> "",
              features |-> Prefixed("url_", empty_features), cache |-> c]
        ELSE OfList(UrlFeatureList(urls, c, t, available, registry))

\* FeatureExtractor.extract_features (lines 45-125) on an email given as the
\* record of its subject, body, sender, reply_to, urls and headers
extract_features(email, c, t, available, registry) ==
    LET Combined(u) ==
            IF u.raised
            THEN [raised |-> TRUE, error |-> u.error, features |-> <<>>,
                  cache |-> u.cache]
            ELSE [raised |-> FALSE, error |-> "",
                  features |->
                      Update(Update(email_extract_features(email.body,
                                                           email.subject),
                                    metadata_extract_features(
                                        email.sender, email.reply_to,
                                        email.subject, email.headers)),
                             u.features),
                  cache |-> u.cache]
    IN  Combined(extract_url_features(
                     IF email.urls # <<>> THEN email.urls
                     ELSE extract_urls_from_text(email.body),
                     c, t, available, registry))

----------------------------------------------------------------------------
(* Email Threat Detector on an email: email_threat_detector.py *)

\* the 0-based indices at which kw occurs in text from index start on:
\* the while loop of lines 386-392 resumes one character after each
\* occurrence, so it finds every occurrence
Occurrences(text, kw, start) ==
    Ascending({i \in start..(Len(text) - Len(kw)) :
                  SubSeq(text, i + 1, i + Len(kw)) = kw})

span_keywords ==
    <<"urgent", "verify", "suspend", "click here", "verify now",
      "account suspended", "password expired", "update payment">>

RECURSIVE KeywordSpans(_, _)
KeywordSpans(text, kws) ==
    IF kws = <<>> THEN <<>>
    ELSE LET occ == Occurrences(text, Head(kws), 0)
         IN  [i \in 1..Len(occ) |->
                 [start |-> occ[i], end |-> occ[i] + Len(Head(kws)),
                  reason |-> "Suspicious phrase"]]
             \o KeywordSpans(text, Tail(kws))

\* re.finditer of the URL pattern of line 395; offset is the index of the
\* first character of text
UrlSpans(text, offset, stops) ==
    LET Spans(ms) ==
            [k \in 1..Len(ms) |->
                [start |-> offset + ms[k].from - 1, end |-> offset + ms[k].to - 1,
                 reason |-> "URL"]]
    IN  Spans(UrlMatches(text, stops))

\* spans.sort(key=lambda s: s['start']): a stable sort, so a span goes
\* after the spans that start before it and the earlier spans that start
\* with it
SortByStart(spans) ==
    LET Before(i) ==
            Cardinality({j \in 1..Len(spans) :
                            \/ spans[j].start < spans[i].start
                            \/ spans[j].start = spans[i].start /\ j < i})
    IN  [k \in 1..Len(spans) |->
            spans[CHOOSE i \in 1..Len(spans) : Before(i) = k - 1]]

UrlStops == Whitespace \cup {"<", ">", "\"", "'"}

\* the spans cut to fifty before they are sorted
get_suspicious_spans_first_found(subject, body) ==
    LET text == subject \o "\n\n" \o body
        spans == KeywordSpans(Lower(text), span_keywords)
                 \o UrlSpans(text, 0, UrlStops)
    IN  SortByStart(SubSeq(spans, 1, Min(50, Len(spans))))

\* _get_suspicious_spans (lines 374-399)
get_suspicious_spans(subject, body) ==
    LET text == subject \o "\n\n" \o body
        spans == KeywordSpans(Lower(text), span_keywords)
                 \o UrlSpans(text, 0, UrlStops)
        sorted == SortByStart(spans)
    IN  SubSeq(sorted, 1, Min(50, Len(sorted)))

\* the reasons of lines 409-423 for the features of one URL
UrlReasons(feats) ==
    LET table ==
            << <<feats.brand_impersonation = 1, "Brand impersonation">>,
               <<feats.is_suspicious_tld = 1, "Suspicious TLD">>,
               <<feats.has_ip_address = 1, "IP address in URL">>,
               <<feats.domain_age_days >= 0 /\ feats.domain_age_days < 90,
                 "New or young domain">>,
               <<feats.has_https_but_suspicious = 1, "HTTPS with suspicious host">>,
               <<feats.deceptive_secure_language = 1, "Deceptive security language">>,
               <<feats.shortened_url = 1, "URL shortener">> >>
    IN  Labels(SelectSeq(table, LAMBDA row : row[1]))

RECURSIVE SuspiciousUrlList(_, _, _, _, _)
\* the loop of _get_suspicious_urls over the URLs it is given
SuspiciousUrlList(urls, c, t, available, registry) ==
    LET Entry(url, reasons, rest) ==
            [list |-> <<[url |-> SubSeq(url, 1, Min(200, Len(url))),
                         reason |-> IF reasons # <<>> THEN Join(reasons, "; ")
                                    ELSE "None"]>>
                      \o rest.list,
             cache |-> rest.cache]
        After(url, x) ==
            Entry(url,
                  IF x.raised THEN <<"Could not analyze">>
                  ELSE UrlReasons(x.features),
                  SuspiciousUrlList(Tail(urls), x.cache, t, available, registry))
        OfUrl(url) ==
            IF url = "" \/ url = NoneUrl
            THEN SuspiciousUrlList(Tail(urls), c, t, available, registry)
            ELSE After(url, url_extract_features(url, c, t, available, registry))
    IN  IF urls = <<>> THEN [list |-> <<>>, cache |-> c]
        ELSE OfUrl(Head(urls))

\* _get_suspicious_urls (lines 401-427)
get_suspicious_urls(urls, c, t, available, registry) ==
    SuspiciousUrlList(SubSeq(urls, 1, Min(20, Len(urls))), c, t, available, registry)

\* the test of line 451 on email_data['sender']
HasSenderDigit(sender) ==
    /\ sender # ""
    /\ \E i \in 1..Len(Split(sender, "@")[1]) : Ch(Split(sender, "@")[1], i) \in Digits

\* analyze_email (lines 83-136) at time t with cache c, bundle b and
\* oracle o; raised where the call raises, the cache as the call left it
analyze_email(email, c, t, available, registry, b, o) ==
    LET Verdict(x, su) ==
            [raised |-> FALSE, error |-> "",
             verdict |->
                 Update(score_features(x.features, HasSenderDigit(email.sender),
                                       b, o),
                        [suspicious_spans |->
                             get_suspicious_spans(email.subject, email.body),
                         suspicious_urls |-> su.list]),
             features |-> x.features,
             cache |-> su.cache]
        Annotated(x) ==
            IF x.raised
            THEN [raised |-> TRUE, error |-> x.error, verdict |-> NoVerdict,
                  features |-> <<>>, cache |-> x.cache]
            ELSE Verdict(x, get_suspicious_urls(
                                IF email.urls = <<>> /\ email.body # ""
                                THEN FindUrls(email.body, UrlStops)
                                ELSE email.urls,
                                x.cache, t, available, registry))
    IN  Annotated(extract_features(email, c, t, available, registry))

\* the minimal verdict of lines 522-526
ErrorVerdict(e) == [is_threat |-> FALSE, threat_score |-> 0, error |-> e]

RECURSIVE batch_analyze_abort(_, _, _, _, _, _, _)
\* the batch without the try: the first failing email ends it
batch_analyze_abort(emails, c, t, available, registry, b, o) ==
    LET Both(r, rest) ==
            [results |-> <<r.verdict>> \o rest.results, cache |-> rest.cache]
        After(r) ==
            IF r.raised THEN [results |-> <<>>, cache |-> r.cache]
            ELSE Both(r, batch_analyze_abort(Tail(emails), r.cache, t, available,
                                             registry, b, o))
    IN  IF emails = <<>> THEN [results |-> <<>>, cache |-> c]
        ELSE After(analyze_email(Head(emails), c, t, available, registry, b, o))

RECURSIVE batch_analyze(_, _, _, _, _, _, _)
\* batch_analyze (lines 506-528)
batch_analyze(emails, c, t, available, registry, b, o) ==
    LET Both(r, rest) ==
            [results |-> <<IF r.raised THEN ErrorVerdict(r.error) ELSE r.verdict>>
                         \o rest.results,
             cache |-> rest.cache]
        After(r) ==
            Both(r, batch_analyze(Tail(emails), r.cache, t, available, registry,
                                  b, o))
    IN  IF emails = <<>> THEN [results |-> <<>>, cache |-> c]
        ELSE After(analyze_email(Head(emails), c, t, available, registry, b, o))

----------------------------------------------------------------------------
(* Inputs of the scoring engine *)

MaxKeywords == 5
MaxUrlCount == 3
MaxUrgency == 3
MaxExclaim == 4
MaxContribution == 1

\* the keys the scoring engine reads that no rule-based term of the bound
\* _rule_based_detection uses; scores among them are in hundredths
ExtendedKeys ==
    {"grammar_anomaly_score", "brand_impersonation", "url_brand_impersonation",
     "cta_intensity", "time_pressure_score", "has_high_risk_attachment",
     "sender_has_number"}
ScoreKeys == {"grammar_anomaly_score", "cta_intensity", "time_pressure_score"}

FeatureMapOf(pk, hrp, url, ip, urg, excl, ext) ==
    [k \in {"phishing_keyword_count", "high_risk_phrase_count", "url_count",
            "ip_address_count", "urgency_word_count", "exclamation_count"}
           \cup ExtendedKeys |->
        CASE k = "phishing_keyword_count" -> pk
          [] k = "high_risk_phrase_count" -> hrp
          [] k = "url_count" -> url
          [] k = "ip_address_count" -> ip
          [] k = "urgency_word_count" -> urg
          [] k = "exclamation_count" -> excl
          [] k \in ScoreKeys -> IF k \in ext THEN 60 ELSE 50
          [] OTHER -> IF k \in ext THEN 1 ELSE 0]

\* every combination of the six counts, the other keys at rest
LegacyMaps ==
    {FeatureMapOf(pk, hrp, url, ip, urg, excl, {}) :
        pk \in 0..MaxKeywords, hrp \in 0..1, url \in 0..MaxUrlCount,
        ip \in 0..1, urg \in 0..MaxUrgency, excl \in 0..MaxExclaim}

\* every combination of the other keys, over the corners of three counts
ExtendedMaps ==
    {FeatureMapOf(pk, 0, url, 0, urg, 0, ext) :
        pk \in {0, MaxKeywords}, url \in {0, 1}, urg \in {0, 1},
        ext \in SUBSET ExtendedKeys}

NoScaler == [present |-> FALSE, mean |-> 0]
NoBundle == [present |-> FALSE, has_predict_proba |-> FALSE,
             feature_names |-> <<>>, scaler |-> NoScaler]
\* a bundle as train_model.py saves it: model, scaler, feature_names
ProbaBundle == [present |-> TRUE, has_predict_proba |-> TRUE,
                feature_names |-> <<"phishing_keyword_count", "url_count",
                                    "from_has_numbers">>,
                scaler |-> [present |-> TRUE, mean |-> 1]]
\* a raw model loaded by _load_model (line 70): no names, no scaler
LegacyBundle == [present |-> TRUE, has_predict_proba |-> TRUE,
                 feature_names |-> <<>>, scaler |-> NoScaler]
\* a classifier that exposes predict only
PredictBundle == [present |-> TRUE, has_predict_proba |-> FALSE,
                  feature_names |-> <<"phishing_keyword_count", "url_count",
                                      "from_has_numbers">>,
                  scaler |-> [present |-> TRUE, mean |-> 1]]

\* probabilities of the positive class, around the band edges
Probabilities == {0, 49, 50, 69, 70, 100}
\* predict of a binary classifier: label 1 phishing, 0 legitimate
Predictions == {0, 1}
Failures == {"none", "vector", "scaler", "predict"}

QuietOracle == [fail |-> "none", proba |-> <<100, 0>>, prediction |-> 0,
                shap_available |-> FALSE, shap_raises |-> FALSE, shap |-> <<>>]

\* the runs of the scoring specification: every bundle kind, every step that
\* can raise, every probability, attribution absent or answering one row
ScoringRuns ==
    {[bundle |-> NoBundle, oracle |-> QuietOracle]}
    \cup {[bundle |-> PredictBundle,
           oracle |-> [QuietOracle EXCEPT !.fail = x, !.prediction = l]] :
            x \in Failures, l \in Predictions}
    \cup {[bundle |-> ProbaBundle,
           oracle |-> [QuietOracle EXCEPT !.fail = x, !.proba = <<100 - p, p>>,
                          !.shap_available = a, !.shap = <<2, -1, 1>>]] :
            x \in Failures, p \in Probabilities, a \in BOOLEAN}
    \cup {[bundle |-> LegacyBundle,
           oracle |-> [QuietOracle EXCEPT !.fail = x, !.proba = pr]] :
            x \in {"none", "scaler", "predict"}, pr \in {<<100>>, <<20, 80>>}}

\* no analyzer has run: the cache is empty, and nothing is to be called
EnvAtRest ==
    /\ whois_cache = <<>>
    /\ clock = 0
    /\ whois_registry = <<>>
    /\ whois_available = FALSE
    /\ input = NoInput
    /\ out = NoOut
    /\ prev = NoOut
    /\ calls = <<>>
    /\ profiles = <<>>
    /\ granted = {}
    /\ user_inboxes = <<>>
    /\ statistics = <<>>
    /\ semantic = NoSemantic

InitScoring ==
    /\ features \in LegacyMaps \cup ExtendedMaps
    /\ sender_digit \in BOOLEAN
    /\ \E r \in ScoringRuns : bundle = r.bundle /\ oracle = r.oracle
    /\ verdict = NoVerdict
    /\ EnvAtRest

\* one call of the scoring engine on the FeatureMap of the state
AnalyzeFeatures ==
    /\ verdict = NoVerdict
    /\ verdict' = score_features(features, sender_digit, bundle, oracle)
    /\ UNCHANGED <<features, sender_digit, bundle, oracle>>
    /\ UNCHANGED env

NextScoring == AnalyzeFeatures

SpecScoring == InitScoring /\ [][NextScoring]_vars


\* the rows the attribution step can answer: up to three signed values
ShapRows ==
    UNION {[1..n -> (0 - MaxContribution)..MaxContribution] : n \in 0..3}

\* the runs of the explainability specification: attribution unavailable,
\* raising, or answering any row, on each kind of bundle
ExplainRuns ==
    {[bundle |-> NoBundle, oracle |-> QuietOracle]}
    \cup {[bundle |-> ProbaBundle,
           oracle |-> [QuietOracle EXCEPT !.proba = <<100 - p, p>>,
                          !.shap_available = TRUE, !.shap = row]] :
            p \in {30, 80}, row \in ShapRows}
    \cup {[bundle |-> ProbaBundle,
           oracle |-> [QuietOracle EXCEPT !.shap_available = a,
                          !.shap_raises = TRUE, !.shap = <<1, 1, 1>>]] :
            a \in BOOLEAN}
    \cup {[bundle |-> b,
           oracle |-> [QuietOracle EXCEPT !.fail = x, !.prediction = 1,
                          !.shap_available = TRUE, !.shap = <<1, 1, 1>>]] :
            b \in {ProbaBundle, PredictBundle}, x \in {"none", "predict"}}

\* the FeatureMaps of the explainability specification: every combination
\* of the keys the rule-based breakdown reads
ExplainMaps ==
    {FeatureMapOf(pk, 0, url, 0, urg, 0, ext) :
        pk \in {0, 1}, url \in {0, 1}, urg \in {0, 1},
        ext \in SUBSET {"brand_impersonation", "url_brand_impersonation",
                        "sender_has_number"}}

InitExplain ==
    /\ features \in ExplainMaps
    /\ sender_digit \in BOOLEAN
    /\ \E r \in ExplainRuns : bundle = r.bundle /\ oracle = r.oracle
    /\ verdict = NoVerdict
    /\ EnvAtRest

SpecExplain == InitExplain /\ [][NextScoring]_vars

----------------------------------------------------------------------------
(* The analyzers and the detector on URLs and emails *)

MaxUrls == 3
MaxBatch == 3
MaxRuns == 2

\* the instants at which the model looks at the clock: the start, and either
\* side of the end of the one-day TTL of an entry cached at the start
Instants == {0, 86399, 86400}

Urls ==
    {"", NoneUrl,
     "http://paypa1-verify.com/login", "https://paypal.com/account",
     "http://paypal-verify.com/login",
     "http://a.tk/x", "https://paypal.com/y",
     "http://192.168.1.1/login", "http://a.tk:99999/x",
     "https://secure-login.a.tk/verify?token=1&id=2#top"}

\* the URLs of the lists handed to the aggregation
ListUrls == {"http://a.tk/x", "https://paypal.com/y",
             "http://192.168.1.1/login", "http://a.tk:99999/x"}

UrlLists == UNION {[1..n -> ListUrls] : n \in 0..MaxUrls}

Email(subject, body, sender, reply_to, urls, headers) ==
    [subject |-> subject, body |-> body, sender |-> sender,
     reply_to |-> reply_to, urls |-> urls, headers |-> headers]

PlainEmail == Email("Lunch", "see you at noon", "ann@gmail.com", "", <<>>, <<>>)
PhishEmail ==
    Email("URGENT: verify your account", "click here http://a.tk/x now!!",
          "bob1@mail.tk", "eve@evil.tk", <<>>, <<"Received-SPF">>)
TwoUrlEmail ==
    Email("Invoice", "please update payment", "billing@paypal.com", "",
          <<"http://a.tk/x", "https://paypal.com/y">>,
          <<"DKIM-Signature", "Content-Type">>)
OneUrlEmail ==
    Email("Your account", "", "service@paypal.com", "service@paypal.com",
          <<"https://paypal.com/account">>, <<>>)
\* the second URL has a port out of range: parsed.port raises on it
BadPortEmail ==
    Email("Hi", "look", "carol@gmail.com", "",
          <<"http://a.tk/x", "http://a.tk:99999/x">>, <<>>)
IpEmail == Email("Router", "go to http://192.168.1.1/login", "it@corp.com", "",
                 <<>>, <<>>)

Emails == {PlainEmail, PhishEmail, TwoUrlEmail, OneUrlEmail, BadPortEmail, IpEmail}

\* the emails of the batches
BatchEmails == {PhishEmail, TwoUrlEmail, BadPortEmail}
EmailLists == UNION {[1..n -> BatchEmails] : n \in 0..MaxBatch}

Day == SecondsPerDay

\* a WHOIS record by the age in days, at time 0, of its dates
WhoisRecord(created, updated) ==
    [raises |-> FALSE, has_creation |-> TRUE, creation_date |-> 0 - created * Day,
     has_updated |-> TRUE, updated_date |-> 0 - updated * Day]

WhoisAnswers ==
    {WhoisRaises, WhoisRecord(89, 10), WhoisRecord(400, 200),
     [raises |-> FALSE, has_creation |-> FALSE, creation_date |-> 0,
      has_updated |-> FALSE, updated_date |-> 0]}

CacheKeys == {"a.tk", "paypal.com", "paypa1-verify.com", "paypal-verify.com"}

\* every lookup raises, or none does and the record of a.tk is any of the
\* three and the other domains are old
Registries ==
    {[k \in CacheKeys |-> WhoisRaises]}
    \cup {[k \in CacheKeys |-> IF k = "a.tk" THEN a ELSE WhoisRecord(400, 200)] :
            a \in WhoisAnswers \ {WhoisRaises}}

\* the lookup capability: absent, or present with one of the registries
WhoisWorlds ==
    {[available |-> FALSE, registry |-> [k \in CacheKeys |-> WhoisRaises]]}
    \cup {[available |-> TRUE, registry |-> r] : r \in Registries}

\* the detectors of the email-level runs: rule-based, or a classifier with
\* a deterministic attribution step
Detectors ==
    {[bundle |-> NoBundle, oracle |-> QuietOracle],
     [bundle |-> ProbaBundle,
      oracle |-> [QuietOracle EXCEPT !.proba = <<20, 80>>,
                     !.shap_available = TRUE, !.shap = <<2, -1, 1>>]]}

\* the worlds of the email-level runs: no capability, every lookup
\* raising, or a.tk registered 89 days ago and the other domains old
EmailWorlds ==
    {w \in WhoisWorlds :
        \/ ~w.available
        \/ w.registry["a.tk"] \in {WhoisRaises, WhoisRecord(89, 10)}}

\* a fresh process: nothing cached, nothing called
InitEnv(worlds) ==
    /\ features = <<>>
    /\ sender_digit = FALSE
    /\ verdict = NoVerdict
    /\ whois_cache = <<>>
    /\ clock = 0
    /\ \E w \in worlds :
           whois_available = w.available /\ whois_registry = w.registry
    /\ out = NoOut
    /\ prev = NoOut
    /\ calls = <<>>
    /\ profiles = <<>>
    /\ granted = {}
    /\ user_inboxes = <<>>
    /\ statistics = <<>>
    /\ semantic = NoSemantic

\* time passes
Tick ==
    /\ \E t \in Instants : t > clock /\ clock' = t
    /\ UNCHANGED <<features, sender_digit, bundle, oracle, verdict, whois_cache,
                   whois_registry, whois_available, input, out, prev>>
    /\ UNCHANGED aside

\* URLAnalyzer.extract_features(url)
ExtractUrl ==
    /\ input.kind = "url"
    /\ out = NoOut
    /\ \E r \in {url_extract_features(input.url, whois_cache, clock,
                                     whois_available, whois_registry)} :
           /\ out' = [op |-> "url", raised |-> r.raised, error |-> r.error,
                      features |-> IF r.raised THEN <<>> ELSE r.features]
           /\ whois_cache' = r.cache
    /\ prev' = out
    /\ UNCHANGED <<features, sender_digit, bundle, oracle, verdict, clock,
                   whois_registry, whois_available, input>>
    /\ UNCHANGED aside

\* FeatureExtractor._extract_url_features(urls)
AggregateUrls ==
    /\ input.kind = "urls"
    /\ out = NoOut
    /\ \E r \in {extract_url_features(input.urls, whois_cache, clock,
                                     whois_available, whois_registry)} :
           /\ out' = [op |-> "urls", raised |-> r.raised, error |-> r.error,
                      features |-> r.features]
           /\ whois_cache' = r.cache
    /\ prev' = out
    /\ UNCHANGED <<features, sender_digit, bundle, oracle, verdict, clock,
                   whois_registry, whois_available, input>>
    /\ UNCHANGED aside

\* FeatureExtractor.extract_features(email_data)
ExtractFeatures ==
    /\ input.kind = "email"
    /\ out = NoOut
    /\ \E r \in {extract_features(input.email, whois_cache, clock,
                                 whois_available, whois_registry)} :
           /\ out' = [op |-> "features", raised |-> r.raised, error |-> r.error,
                      features |-> r.features]
           /\ features' = r.features
           /\ whois_cache' = r.cache
    /\ prev' = out
    /\ UNCHANGED <<sender_digit, bundle, oracle, verdict, clock,
                   whois_registry, whois_available, input>>
    /\ semantic' = load_model(semantic)
    /\ UNCHANGED <<calls, profiles, granted, user_inboxes, statistics>>

InitFeatures ==
    /\ InitEnv(WhoisWorlds)
    /\ bundle = NoBundle /\ oracle = QuietOracle
    /\ input \in {[kind |-> "url", url |-> u] : u \in Urls}
               \cup {[kind |-> "urls", urls |-> us] : us \in UrlLists}
               \cup {[kind |-> "email", email |-> e] : e \in Emails}

NextFeatures == ExtractUrl \/ AggregateUrls \/ ExtractFeatures

SpecFeatures == InitFeatures /\ [][NextFeatures]_vars

\* the number of calls made so far, as out and prev record it
Runs == IF out = NoOut THEN 0 ELSE out.run

\* EmailThreatDetector.analyze_email(email_data), on any email of the set
AnalyzeEmail(email) ==
    /\ Runs < MaxRuns
    /\ \E r \in {analyze_email(email, whois_cache, clock, whois_available,
                              whois_registry, bundle, oracle)} :
           /\ out' = [op |-> "analyze_email", run |-> Runs + 1, email |-> email,
                      at |-> clock, cache_before |-> whois_cache,
                      cache_after |-> r.cache,
                      raised |-> r.raised, error |-> r.error,
                      verdict |-> r.verdict]
           /\ features' = r.features
           /\ sender_digit' = HasSenderDigit(email.sender)
           /\ verdict' = r.verdict
           /\ whois_cache' = r.cache
    /\ prev' = out
    /\ UNCHANGED <<bundle, oracle, clock, whois_registry, whois_available, input>>
    /\ semantic' = load_model(semantic)
    /\ UNCHANGED <<calls, profiles, granted, user_inboxes, statistics>>

InitAnalyze ==
    /\ InitEnv(EmailWorlds)
    /\ \E d \in Detectors : bundle = d.bundle /\ oracle = d.oracle
    /\ input = NoInput

\* the emails of the repeated runs
RunEmails == {TwoUrlEmail, BadPortEmail}

NextAnalyze == (\E e \in RunEmails : AnalyzeEmail(e)) \/ Tick

SpecAnalyze == InitAnalyze /\ [][NextAnalyze]_vars

\* EmailThreatDetector.batch_analyze(emails)
BatchAnalyze ==
    /\ input.kind = "batch"
    /\ out = NoOut
    /\ \E r \in {batch_analyze(input.emails, whois_cache, clock, whois_available,
                              whois_registry, bundle, oracle)} :
           /\ out' = [op |-> "batch_analyze", at |-> clock,
                      cache_before |-> whois_cache, results |-> r.results]
           /\ whois_cache' = r.cache
    /\ prev' = out
    /\ UNCHANGED <<features, sender_digit, bundle, oracle, verdict, clock,
                   whois_registry, whois_available, input>>
    /\ semantic' = IF input.emails = <<>> THEN semantic ELSE load_model(semantic)
    /\ UNCHANGED <<calls, profiles, granted, user_inboxes, statistics>>

InitBatch ==
    /\ InitEnv(EmailWorlds)
    /\ \E d \in Detectors : bundle = d.bundle /\ oracle = d.oracle
    /\ input \in {[kind |-> "batch", emails |-> es] : es \in EmailLists}

NextBatch == BatchAnalyze

SpecBatch == InitBatch /\ [][NextBatch]_vars

----------------------------------------------------------------------------
(* Properties of the scoring engine *)

Scored == verdict # NoVerdict

\* C1: on every scoring path the verdict's threat_score lies in [0,1] and
\* threat_type is phishing exactly from 0.7, suspicious exactly in
\* [0.5, 0.7), legitimate exactly below 0.5.
C1_ScoreRangeAndBanding ==
    Scored =>
        /\ verdict.threat_score \in 0..100
        /\ verdict.threat_type = "phishing" <=> verdict.threat_score >= 70
        /\ verdict.threat_type = "suspicious" <=>
               (verdict.threat_score >= 50 /\ verdict.threat_score < 70)
        /\ verdict.threat_type = "legitimate" <=> verdict.threat_score < 50

\* the rule-based path has capped a sum above 1.0 and banded it phishing
C1_Witness ==
    /\ Scored
    /\ ~bundle.present
    /\ SumSeq(LegacyTerms(features)) > 100
    /\ verdict.threat_score = 100
    /\ verdict.threat_type = "phishing"

\* C2 (as claimed): whatever the scoring and attribution steps did, the
\* risk_breakdown components lie in [0,1] and sum to 1.0 within rounding.
C2_BreakdownSumsToOne ==
    Scored =>
        /\ \A k \in {"content", "url", "metadata"} :
               verdict.risk_breakdown[k] \in 0..1000
        /\ verdict.risk_breakdown.content + verdict.risk_breakdown.url
               + verdict.risk_breakdown.metadata \in 998..1002

\* C5: when a classifier is present and a step of the classifier path
\* raises, the verdict carries the rule-based score and type of the same
\* FeatureMap, no feature contributions and the rule-based breakdown.
C5_ClassifierFailureFallsBack ==
    (Scored /\ bundle.present /\ MlRaises(bundle, oracle)) =>
        /\ verdict.threat_score = Min(100, SumSeq(LegacyTerms(features)))
        /\ verdict.threat_type = ThreatType(verdict.threat_score)
        /\ verdict.feature_contributions = <<>>
        /\ verdict.risk_breakdown = rule_based_risk_breakdown(features)

\* the classifier raised with attribution available, and the fallback
\* scored the email phishing
C5_Witness ==
    /\ Scored
    /\ bundle.present
    /\ MlRaises(bundle, oracle)
    /\ oracle.shap_available
    /\ verdict.threat_score >= 70

\* the eleven documented terms of the rule-based score, in hundredths
DocumentedTermSum(f) ==
    (IF Get(f, "phishing_keyword_count") > 4 THEN 35
     ELSE IF Get(f, "phishing_keyword_count") > 2 THEN 25 ELSE 0)
    + (IF Get(f, "high_risk_phrase_count") > 0 THEN 25 ELSE 0)
    + (IF Get(f, "url_count") > 2 THEN 20
       ELSE IF Get(f, "url_count") > 0 THEN 10 ELSE 0)
    + (IF Get(f, "ip_address_count") > 0 THEN 25 ELSE 0)
    + (IF Get(f, "urgency_word_count") > 2 THEN 20
       ELSE IF Get(f, "urgency_word_count") > 0 THEN 10 ELSE 0)
    + (IF Get(f, "exclamation_count") > 3 THEN 15
       ELSE IF Get(f, "exclamation_count") > 1 THEN 8 ELSE 0)
    + (IF Get(f, "grammar_anomaly_score") > 50 THEN 10 ELSE 0)
    + (IF Get(f, "brand_impersonation") = 1
          \/ Get(f, "url_brand_impersonation") = 1 THEN 25 ELSE 0)
    + (IF Get(f, "cta_intensity") > 50 THEN 10 ELSE 0)
    + (IF Get(f, "time_pressure_score") > 50 THEN 10 ELSE 0)
    + (IF Get(f, "has_high_risk_attachment") = 1 THEN 20 ELSE 0)

\* C6 (as claimed): with no classifier the threat_score is min(1.0, S), S the
\* sum of all eleven documented terms.
C6_ElevenTermScore ==
    (Scored /\ ~bundle.present) =>
        verdict.threat_score = Min(100, DocumentedTermSum(features))

----------------------------------------------------------------------------
(* Properties of the analyzers and of the detector on emails *)

\* the 33 feature names of the URL Analyzer
UrlFeatureKeys ==
    {"url_length", "domain_length", "path_length", "query_length", "num_dots",
     "num_hyphens", "num_underscores", "num_slashes", "num_question_marks",
     "num_equals", "num_ampersands", "num_percent", "has_https", "has_port",
     "has_path", "has_query", "has_fragment", "is_suspicious_tld",
     "domain_entropy", "has_ip_address", "num_subdomains", "path_entropy",
     "num_path_segments", "has_suspicious_path", "num_query_params",
     "has_suspicious_query", "shortened_url", "has_typosquatting",
     "domain_age_days", "domain_recently_updated", "brand_impersonation",
     "has_https_but_suspicious", "deceptive_secure_language"}

HeaderFeatureKeys ==
    {"has_spf", "has_dkim", "has_dmarc", "has_mime_version", "has_content_type",
     "num_headers"}

Extracted == out.op = "features" /\ ~out.raised

\* the key set of the FeatureMap of an email with no URL, no reply-to and
\* no headers
PlainFeatureKeys ==
    DOMAIN extract_features(PlainEmail, <<>>, 0, FALSE, <<>>).features

\* C3 (as claimed): the key set of the FeatureMap is the same for every
\* email, whatever its number of URLs, its reply-to and its headers, and the
\* header features are there with value 0 when no headers are supplied.
C3_KeySetIsFixed ==
    Extracted =>
        /\ DOMAIN out.features = PlainFeatureKeys
        /\ input.email.headers = <<>> =>
               \A h \in HeaderFeatureKeys :
                   h \in DOMAIN out.features /\ out.features[h] = 0

BatchDone == out.op = "batch_analyze"

\* analyze_email on the i-th email of the batch alone, from the state in
\* which the batch was called
Alone(i) ==
    analyze_email(input.emails[i], out.cache_before, out.at, whois_available,
                  whois_registry, bundle, oracle)

\* C4: batch_analyze returns one entry per email, in order; the entry of an
\* email whose analysis raises is the error verdict (is_threat False,
\* threat_score 0.0, an error field), and the entry of every other email is
\* what analyze_email returns for that email alone.
C4_BatchIsolation ==
    BatchDone =>
        /\ Len(out.results) = Len(input.emails)
        /\ \A i \in 1..Len(input.emails) :
               \A alone \in {Alone(i)} :
                   IF alone.raised
                   THEN /\ "error" \in DOMAIN out.results[i]
                        /\ out.results[i].is_threat = FALSE
                        /\ out.results[i].threat_score = 0
                   ELSE out.results[i] = alone.verdict

\* a batch of three whose second email failed after its first URL had been
\* looked up and cached, between two emails that did not fail
C4_Witness ==
    /\ BatchDone
    /\ whois_available
    /\ Len(input.emails) = 3
    /\ input.emails[2] = BadPortEmail
    /\ input.emails[3] = TwoUrlEmail
    /\ "error" \in DOMAIN out.results[2]
    /\ "error" \notin DOMAIN out.results[1]
    /\ "error" \notin DOMAIN out.results[3]
    /\ "a.tk" \in DOMAIN whois_cache

\* two consecutive calls of analyze_email on the same email, the cache
\* untouched between them
SameEmailTwice ==
    /\ out.op = "analyze_email"
    /\ prev.op = "analyze_email"
    /\ out.email = prev.email
    /\ out.cache_before = prev.cache_after

\* no entry the first call left in force has reached its TTL at the second
NoExpiryBetween ==
    \A k \in DOMAIN prev.cache_after :
        prev.at - prev.cache_after[k].ts < _WHOIS_CACHE_TTL
            => out.at - prev.cache_after[k].ts < _WHOIS_CACHE_TTL

\* the fields of the verdict that the two runs are to agree on
ComparedFields ==
    {"is_threat", "threat_score", "threat_type", "confidence", "risk_factors",
     "recommendations", "risk_breakdown", "suspicious_spans", "suspicious_urls",
     "feature_contributions"}

\* both runs raised, or neither did and the verdicts agree on those fields
SameOutcome ==
    /\ out.raised = prev.raised
    /\ ~out.raised =>
           \A fld \in ComparedFields : out.verdict[fld] = prev.verdict[fld]

UrlDone == out.op = "url"

\* C8 (as claimed): brand_impersonation is 1 for
\* http://paypa1-verify.com/login and 0 for https://paypal.com/account.
C8_BrandImpersonationExamples ==
    UrlDone =>
        /\ input.url = "http://paypa1-verify.com/login" =>
               (~out.raised /\ out.features.brand_impersonation = 1)
        /\ input.url = "https://paypal.com/account" =>
               (~out.raised /\ out.features.brand_impersonation = 0)

\* C8 (amended): brand_impersonation is 0 for http://paypa1-verify.com/login,
\* which holds no brand token, and 0 for https://paypal.com/account; it is 1
\* for http://paypal-verify.com/login, which holds the token paypal under a
\* domain that is not the canonical one.
C8_BrandTokenExamples ==
    UrlDone =>
        /\ input.url = "http://paypa1-verify.com/login" =>
               (~out.raised /\ out.features.brand_impersonation = 0)
        /\ input.url = "https://paypal.com/account" =>
               (~out.raised /\ out.features.brand_impersonation = 0)
        /\ input.url = "http://paypal-verify.com/login" =>
               (~out.raised /\ out.features.brand_impersonation = 1)

\* the analyzer has answered for the URL with the look-alike domain
C8_Witness ==
    /\ UrlDone
    /\ input.url = "http://paypa1-verify.com/login"
    /\ out.features.brand_impersonation = 0
    /\ out.features.has_suspicious_path = 1

\* C9: on an empty URL ('' or None) extract_features raises nothing and
\* returns every value 0 under the key set it returns for every non-empty
\* URL.
C9_EmptyUrlFullZeroSet ==
    UrlDone =>
        /\ ~out.raised => DOMAIN out.features = UrlFeatureKeys
        /\ input.url \in {"", NoneUrl} =>
               /\ ~out.raised
               /\ \A k \in DOMAIN out.features : out.features[k] = 0

\* the analyzer has answered for None
C9_Witness ==
    /\ UrlDone
    /\ input.url = NoneUrl
    /\ ~out.raised
    /\ Cardinality(DOMAIN out.features) = 33

Aggregated == out.op = "urls" /\ ~out.raised /\ Len(input.urls) >= 2

\* the features of each URL of the list, by the URL Analyzer on that URL
\* alone with no lookup capability
FeaturesOfEach ==
    [i \in 1..Len(input.urls) |->
        url_extract_features(input.urls[i], <<>>, 0, FALSE, <<>>).features]

\* C10: for a list of n >= 2 URLs url_count is n, and every URL Analyzer
\* feature k whose name contains count, has_, is_ or num_ has both
\* url_max_k, the maximum of k over the URLs, and url_avg_k, their mean.
C10_CountStyleMaxAndAvg ==
    Aggregated =>
        \A each \in {FeaturesOfEach} :
        LET n == Len(input.urls)
        IN  /\ out.features["url_count"] = n
            /\ \A k \in {x \in UrlFeatureKeys :
                            \E w \in {"count", "has_", "is_", "num_"} :
                                Contains(x, w)} :
                   /\ ("url_max_" \o k) \in DOMAIN out.features
                   /\ ("url_avg_" \o k) \in DOMAIN out.features
                   /\ \A i \in 1..n : each[i][k] <= out.features["url_max_" \o k]
                   /\ \E i \in 1..n : each[i][k] = out.features["url_max_" \o k]
                   /\ out.features["url_avg_" \o k].den = n
                   /\ out.features["url_avg_" \o k].num
                          = SumSeq([i \in 1..n |-> each[i][k]])

\* the two URLs of the documented example have been aggregated
C10_Witness ==
    /\ Aggregated
    /\ input.urls = <<"http://a.tk/x", "https://paypal.com/y">>
    /\ out.features["url_count"] = 2
    /\ out.features["url_max_has_https"] = 1
    /\ out.features["url_avg_has_https"] = [num |-> 1, den |-> 2]

----------------------------------------------------------------------------
(* The two emails of the add-on's tests (test_addon.py lines 35-96): the   *)
(* suspension notice and the newsletter, in the variants the rule-based    *)
(* score has to treat alike                                                *)

\* the largest number of exclamation marks appended to a body
MaxMarks == 6

RECURSIVE Marks(_)
Marks(n) == IF n = 0 THEN "" ELSE "!" \o Marks(n - 1)

SuspensionSubject == "URGENT: Your Account Has Been Suspended!"

\* the phrases of the suspension notice, as the test writes them and in
\* capitals
SuspensionPieces ==
    {<<"verify", "click here", "act now", "http://192.168.1.1/login">>,
     <<"VERIFY", "Click Here", "ACT NOW", "http://192.168.1.1/login">>}

Orders == {p \in [1..4 -> 1..4] : \A i, j \in 1..4 : p[i] = p[j] => i = j}

\* the suspension notices: the four phrases in any order, then three marks
\* or more
SuspensionEmails ==
    {Email(SuspensionSubject,
           Join([i \in 1..4 |-> pieces[p[i]]], " ") \o " " \o Marks(n),
           "security@paypa1-verify.com", "", <<>>, <<>>) :
        pieces \in SuspensionPieces, p \in Orders, n \in {3, MaxMarks}}

NewsletterLink == "https://company.com/blog"

\* the newsletters: the link in the body or in the list of URLs, any
\* number of marks in the subject and in the body
NewsletterEmails ==
    {Email("Weekly Newsletter - January 2026" \o Marks(k),
           "Hello, here is our blog " \o (IF listed THEN "" ELSE NewsletterLink)
               \o " " \o Marks(n) \o " Best regards, The Company Team",
           "newsletter@company.com", "",
           IF listed THEN <<NewsletterLink>> ELSE <<>>, <<>>) :
        k \in {0, 1}, n \in 0..MaxMarks, listed \in BOOLEAN}

\* a short note from an address with a digit in its local part, no link
DigitSenderEmail ==
    Email("Lunch", "see you at noon", "ann7@gmail.com", "", <<>>, <<>>)

\* the largest number of repetitions of a phrase in a body
MaxRepeats == 26

RECURSIVE Repeat(_, _)
Repeat(s, n) == IF n = 0 THEN "" ELSE s \o Repeat(s, n - 1)

\* bodies with about fifty matches: 'verify now' holds two phrases, and the
\* links come before the phrases or after them
ManyMatchEmails ==
    {Email(subject, first \o Repeat("Verify NOW ", n) \o last,
           "it@corp.com", "", <<>>, <<>>) :
        subject \in {"Lunch", "URGENT www.a.tk"},
        n \in {MaxRepeats - 2, MaxRepeats - 1, MaxRepeats},
        first \in {"", "<http://a.tk/x> "},
        last \in {"", "see https://paypal.com/y"}}

\* one analysis of one email of the families
AnalyzeScenario ==
    /\ input.kind = "scenario"
    /\ out = NoOut
    /\ AnalyzeEmail(input.email)

InitScenario ==
    /\ InitEnv(EmailWorlds)
    /\ bundle = NoBundle /\ oracle = QuietOracle
    /\ input \in {[kind |-> "scenario", email |-> e] :
                     e \in SuspensionEmails \cup NewsletterEmails
                           \cup {PlainEmail, PhishEmail, DigitSenderEmail}
                           \cup ManyMatchEmails}

NextScenario == AnalyzeScenario

SpecScenario == InitScenario /\ [][NextScenario]_vars

ScenarioDone == out.op = "analyze_email" /\ input.kind = "scenario"

\* the URLs the text of s holds
LinksIn(s) == FindUrls(s, UrlStops)

\* a URL whose host starts as a dotted quad
HasIpHost(u) ==
    \E pre \in {"http://", "https://"} :
        StartsWith(u, pre) /\ IpMatchLen(SubSeq(u, Len(pre) + 1, Len(u))) > 0

\* the premise of the suspension notice
IsSuspensionNotice(email) ==
    /\ email.subject = SuspensionSubject
    /\ \A w \in {"verify", "click here", "act now"} :
           Contains(Lower(email.body), w)
    /\ \E i \in 1..Len(LinksIn(email.body)) : HasIpHost(LinksIn(email.body)[i])
    /\ CountChar(email.body, "!") >= 3

IsPlainNewsletter(email) ==
    /\ \A s \in {email.subject, email.body} :
           /\ \A w \in phishing_keywords \cup urgency_words :
                  ~Contains(Lower(s), w)
           /\ CountIps(s, " ") = 0
    /\ LinksIn(email.subject) = <<>>
    /\ email.urls \o LinksIn(email.body) = <<NewsletterLink>>

----------------------------------------------------------------------------
(* Risk factors against the rule-based terms *)

\* the scored features that have a risk factor: the place of the feature's
\* term in the rule-based sum, the largest value of the term, the factor
ScoredFactors ==
    { <<1, 35, "Multiple phishing keywords detected">>,
      <<2, 25, "High-risk phrases found">>,
      <<3, 20, "Excessive number of URLs">>,
      <<4, 25, "Direct IP addresses in links">>,
      <<5, 20, "Urgency manipulation detected">>,
      <<6, 15, "Excessive punctuation (emotional manipulation)">> }

Reported(label) ==
    \E i \in 1..Len(verdict.risk_factors) : verdict.risk_factors[i] = label

\* C18 (as claimed): the risk factor of a scored feature is reported only
\* when the feature's term of the rule-based score is positive, and
\* whenever the term has its largest value.
C18_FactorsGatedByScoring ==
    Scored =>
        \A row \in ScoredFactors :
            /\ Reported(row[3]) => LegacyTerms(features)[row[1]] > 0
            /\ LegacyTerms(features)[row[1]] = row[2] => Reported(row[3])

----------------------------------------------------------------------------
(* The risk breakdown without contribution data *)

\* the documented weights of the three groups, in tenths
DocumentedWeights(f, digit) ==
    [content |-> IF Get(f, "phishing_keyword_count") > 0
                    \/ Get(f, "urgency_word_count") > 0 THEN 5 ELSE 0,
     url |-> (IF Get(f, "url_count") > 0 THEN 5 ELSE 0)
             + (IF Get(f, "brand_impersonation") = 1
                   \/ Get(f, "url_brand_impersonation") = 1 THEN 5 ELSE 0),
     metadata |-> IF digit THEN 2 ELSE 0]

\* the breakdown b is the normalisation of the weights w, equal shares
\* (0.33 or 0.34 each) when they are all zero
IsNormalisationOf(b, w) ==
    LET total == w.content + w.url + w.metadata
    IN  \A k \in {"content", "url", "metadata"} :
            IF total = 0 THEN b[k] \in 330..340
            ELSE b[k] = Round3(w[k], total)

\* C19 (as claimed): without contribution data the breakdown of the verdict
\* is the normalisation of content 0.5 for a keyword or an urgency word
\* (whatever the URLs), url 0.5 for a URL plus 0.5 for brand impersonation,
\* metadata 0.2 for a digit in the sender's local part.
C19_DocumentedBreakdownWeights ==
    (ScenarioDone /\ ~out.raised /\ verdict.feature_contributions = <<>>) =>
        IsNormalisationOf(verdict.risk_breakdown,
                          DocumentedWeights(features, sender_digit))

----------------------------------------------------------------------------
(* The suspicious spans of a verdict *)

\* the text the spans refer to, and the spans of the verdict
SpanText == out.email.subject \o "\n\n" \o out.email.body
SpansOf == out.verdict.suspicious_spans

\* the text is one of the fixed phrases, in any case
IsFixedPhrase(s) == \E k \in 1..Len(span_keywords) : Lower(s) = span_keywords[k]

\* the text is what the URL pattern matches: a prefix, then one character
\* or more, none of them a delimiter
IsUrlText(s) ==
    \E pre \in {"http://", "https://", "www."} :
        /\ StartsWith(s, pre)
        /\ Len(s) > Len(pre)
        /\ \A i \in (Len(pre) + 1)..Len(s) : Ch(s, i) \notin UrlStops

\* every occurrence of a fixed phrase in the text low, as a span
PhraseMatches(low) ==
    {[start |-> i, end |-> i + Len(span_keywords[k]), reason |-> "Suspicious phrase"] :
        <<k, i>> \in
            {x \in (1..Len(span_keywords)) \X (0..Len(low)) :
                SubSeq(low, x[2] + 1, Min(Len(low), x[2] + Len(span_keywords[x[1]])))
                    = span_keywords[x[1]]}}

\* the 0-based offsets at which the URL pattern matches in text
UrlOffsets(text) ==
    {i \in 0..(Len(text) - 1) :
        \E pre \in {"http://", "https://", "www."} :
            /\ SubSeq(text, i + 1, Min(Len(text), i + Len(pre))) = pre
            /\ i + Len(pre) < Len(text)
            /\ Ch(text, i + Len(pre) + 1) \notin UrlStops}

\* the cap has cut the list at a span that starts no later than offset
CutBefore(offset) == Len(SpansOf) = 50 /\ SpansOf[50].start <= offset

----------------------------------------------------------------------------
(* _extract_whois_features step by step (url_analyzer.py lines 136-183),   *)
(* for callers that share _whois_cache: each caller reads the clock and    *)
(* the cache, hands the lookup to a worker, waits for it up to the         *)
(* timeout, leaves the with block and writes the cache.                    *)

\* the number of concurrent callers
MaxCallers == 2

_WHOIS_TIMEOUT == 3

Callers == 1..MaxCallers

\* the extracted domains the callers ask about
WhoisDomains ==
    {[domain |-> "a", suffix |-> "tk"], [domain |-> "PayPal", suffix |-> "com"],
     [domain |-> "printer", suffix |-> "local"]}

\* the instants at which something happens
WhoisInstants == {0, _WHOIS_TIMEOUT, _WHOIS_CACHE_TTL - 1, _WHOIS_CACHE_TTL}

\* a caller outside the function
IdleCall ==
    [pc |-> "idle", key |-> "", now |-> 0, worker |-> "none",
     answer |-> WhoisRaises, features |-> WhoisDefault, outcome |-> "none"]

\* an entry in force up to and including its twenty-fourth hour
CacheHit_inclusive(c, key, t) == key \in DOMAIN c /\ t - c[key].ts <= _WHOIS_CACHE_TTL

\* lines 144-146: the cache c holds an entry for key that is in force at t
CacheHit(c, key, t) == key \in DOMAIN c /\ t - c[key].ts < _WHOIS_CACHE_TTL

\* lines 159-179: the age and the update flag of the record w at time t
whois_ages(w, t) ==
    [age_days |-> IF w.has_creation THEN Max(0, DaysSince(t, w.creation_date))
                  ELSE 0,
     recently_updated |-> IF w.has_updated /\ DaysSince(t, w.updated_date) <= 90
                          THEN 1 ELSE 0]

\* lines 157 and 180: _whois_cache[key] = {'ts': now, ...}
cache_store(c, key, now, values) ==
    Update(c, [k \in {key} |->
                  [ts |-> now, age_days |-> values.age_days,
                   recently_updated |-> values.recently_updated]])

\* a failure that leaves the cache as it was
after_failure_not_stored(c, key, now) == c

\* line 157: the cache after a lookup that raised or timed out
after_failure(c, key, now) == cache_store(c, key, now, WhoisDefault)

\* the caller returns the features, by the path named outcome
Returned(call, feats, outcome) ==
    [call EXCEPT !.pc = "returned", !.worker = "none", !.features = feats,
                 !.outcome = outcome]

\* lines 136-155: the call up to the submission of the lookup
BeginLookup(c, extracted) ==
    /\ calls[c].pc \in {"idle", "returned"}
    /\ \E fresh \in {[IdleCall EXCEPT !.key = WhoisKey(extracted), !.now = clock]} :
           calls' = [calls EXCEPT ![c] =
               IF extracted.suffix \in {"", "local"}
               THEN Returned(fresh, WhoisDefault, "no_domain")
               ELSE IF CacheHit(whois_cache, fresh.key, clock)
               THEN Returned(fresh,
                             [age_days |-> whois_cache[fresh.key].age_days,
                              recently_updated |->
                                  whois_cache[fresh.key].recently_updated],
                             "cached")
               ELSE IF ~whois_available
               THEN Returned(fresh, WhoisDefault, "no_whois")
               ELSE [fresh EXCEPT !.pc = "waiting", !.worker = "running"]]
    /\ UNCHANGED <<semantic, user_inboxes, statistics>>
    /\ UNCHANGED <<features, sender_digit, bundle, oracle, verdict, whois_cache,
                   clock, whois_registry, whois_available, input, out, prev,
                   profiles, granted>>

\* line 155: whois.whois(domain) ends in the worker, with the record of the
\* registry or with an exception; while the caller waits it ends within
\* the timeout
WorkerCompletes(c) ==
    /\ calls[c].worker = "running"
    /\ \/ calls[c].pc = "joining"
       \/ calls[c].pc = "waiting" /\ clock < calls[c].now + _WHOIS_TIMEOUT
    /\ \E raises \in BOOLEAN :
           calls' = [calls EXCEPT ![c].worker = "done",
                                  ![c].answer = IF raises THEN WhoisRaises
                                                ELSE whois_registry[calls[c].key]]
    /\ UNCHANGED <<semantic, user_inboxes, statistics>>
    /\ UNCHANGED <<features, sender_digit, bundle, oracle, verdict, whois_cache,
                   clock, whois_registry, whois_available, input, out, prev,
                   profiles, granted>>

\* lines 156-183: fut.result returns or raises what the lookup raised; the
\* with block ends at once, its worker being done
TakeResult(c) ==
    /\ calls[c].pc = "waiting"
    /\ calls[c].worker = "done"
    /\ IF calls[c].answer.raises
       THEN /\ whois_cache' = after_failure(whois_cache, calls[c].key, calls[c].now)
            /\ calls' = [calls EXCEPT ![c] = Returned(@, WhoisDefault, "failed")]
       ELSE /\ whois_cache' = cache_store(whois_cache, calls[c].key, calls[c].now,
                                          whois_ages(calls[c].answer, clock))
            /\ calls' = [calls EXCEPT ![c] =
                            Returned(@, whois_ages(calls[c].answer, clock),
                                     "looked_up")]
    /\ UNCHANGED <<semantic, user_inboxes, statistics>>
    /\ UNCHANGED <<features, sender_digit, bundle, oracle, verdict,
                   clock, whois_registry, whois_available, input, out, prev,
                   profiles, granted>>

\* line 156: fut.result(timeout=_WHOIS_TIMEOUT) raises TimeoutError, and the
\* with block of line 154 starts to end: ThreadPoolExecutor.__exit__ is
\* shutdown(wait=True)
TimeoutFires(c) ==
    /\ calls[c].pc = "waiting"
    /\ calls[c].worker = "running"
    /\ clock >= calls[c].now + _WHOIS_TIMEOUT
    /\ calls' = [calls EXCEPT ![c].pc = "joining"]
    /\ UNCHANGED <<semantic, user_inboxes, statistics>>
    /\ UNCHANGED <<features, sender_digit, bundle, oracle, verdict, whois_cache,
                   clock, whois_registry, whois_available, input, out, prev,
                   profiles, granted>>

\* lines 154-158: shutdown(wait=True) has joined the worker; the
\* TimeoutError reaches the except clause
ExitWith(c) ==
    /\ calls[c].pc = "joining"
    /\ calls[c].worker = "done"
    /\ whois_cache' = after_failure(whois_cache, calls[c].key, calls[c].now)
    /\ calls' = [calls EXCEPT ![c] = Returned(@, WhoisDefault, "failed")]
    /\ UNCHANGED <<semantic, user_inboxes, statistics>>
    /\ UNCHANGED <<features, sender_digit, bundle, oracle, verdict,
                   clock, whois_registry, whois_available, input, out, prev,
                   profiles, granted>>

\* time passes while the callers run
Pass ==
    /\ \E t \in WhoisInstants : t > clock /\ clock' = t
    /\ UNCHANGED <<semantic, user_inboxes, statistics>>
    /\ UNCHANGED <<features, sender_digit, bundle, oracle, verdict, whois_cache,
                   whois_registry, whois_available, input, out, prev, calls,
                   profiles, granted>>

InitWhois ==
    /\ features = <<>>
    /\ sender_digit = FALSE
    /\ bundle = NoBundle /\ oracle = QuietOracle
    /\ verdict = NoVerdict
    /\ whois_cache = <<>>
    /\ clock = 0
    /\ \E w \in EmailWorlds :
           whois_available = w.available /\ whois_registry = w.registry
    /\ input = NoInput
    /\ out = NoOut
    /\ prev = NoOut
    /\ calls = [c \in Callers |-> IdleCall]
    /\ profiles = <<>>
    /\ granted = {}
    /\ user_inboxes = <<>>
    /\ statistics = <<>>
    /\ semantic = NoSemantic

NextWhois ==
    \/ \E c \in Callers : \E x \in WhoisDomains : BeginLookup(c, x)
    \/ \E c \in Callers : WorkerCompletes(c)
    \/ \E c \in Callers : TakeResult(c)
    \/ \E c \in Callers : TimeoutFires(c)
    \/ \E c \in Callers : ExitWith(c)
    \/ Pass

SpecWhois == InitWhois /\ [][NextWhois]_vars

----------------------------------------------------------------------------
(* Properties of the domain-age lookup *)

\* caller c enters _extract_whois_features in this step
Begins(c) == calls[c].pc \in {"idle", "returned"} /\ calls'[c] # calls[c]

\* caller c returns in this step from a lookup that raised or timed out
ReturnsFromFailure(c) ==
    /\ calls'[c].pc = "returned"
    /\ \/ calls[c].pc = "waiting" /\ calls[c].answer.raises
       \/ calls[c].pc = "joining"

\* the cache holds the default values for key
HoldsDefault(c, key) ==
    key \in DOMAIN c /\ c[key].age_days = 0 /\ c[key].recently_updated = 0

C14_TimeoutReturnsWithoutWorker ==
    \A c \in Callers : calls[c].pc = "joining" => ENABLED ExitWith(c)

\* C16: a cache entry younger than 86400 s is returned as it is and no
\* lookup is made; an entry of 86400 s or more is not returned: the domain
\* is looked up again, or the defaults are returned where there is no
\* lookup capability.
C16_EntryServedWithinTtlOnly ==
    [][\A c \in Callers :
          (Begins(c) /\ calls'[c].key \in DOMAIN whois_cache) =>
              IF clock - whois_cache[calls'[c].key].ts < 86400
              THEN /\ calls'[c].pc = "returned"
                   /\ calls'[c].worker = "none"
                   /\ calls'[c].features.age_days
                          = whois_cache[calls'[c].key].age_days
                   /\ calls'[c].features.recently_updated
                          = whois_cache[calls'[c].key].recently_updated
                   /\ whois_cache' = whois_cache
              ELSE /\ calls'[c].outcome # "cached"
                   /\ IF whois_available
                      THEN calls'[c].pc = "waiting" /\ calls'[c].worker = "running"
                      ELSE calls'[c].pc = "returned"
                           /\ calls'[c].features = WhoisDefault]_vars

\* one caller has been served an entry in its last second, and another is
\* looking a domain up again whose entry is 86400 s old
C16_Witness ==
    \E c, d \in Callers :
        /\ calls[c].outcome = "cached"
        /\ calls[c].now - whois_cache[calls[c].key].ts = 86399
        /\ calls[c].features.age_days > 0
        /\ calls[d].pc = "waiting"
        /\ calls[d].key \in DOMAIN whois_cache
        /\ calls[d].now - whois_cache[calls[d].key].ts = 86400

\* C17 (as claimed): whichever caller wrote last, the entry of a domain is
\* the one a caller whose lookup succeeded has written for it: no caller
\* whose lookup failed or timed out has replaced the age by the default.
C17_LastWriterLeavesSameEntry ==
    \A c \in Callers :
        (/\ calls[c].outcome = "looked_up"
         /\ whois_cache[calls[c].key].ts = calls[c].now) =>
            /\ whois_cache[calls[c].key].age_days = calls[c].features.age_days
            /\ whois_cache[calls[c].key].recently_updated
                   = calls[c].features.recently_updated

----------------------------------------------------------------------------
(* The Gmail add-on: gmail_addon_manager.py, gmail_addon_integration.py    *)
(* and the whitelist routes of web_backend.py.  A profile is its           *)
(* addon_config; the lists are Python lists, kept as sequences.            *)

Users == {"test_user"}
Senders == {"trusted@company.com", "bob1@mail.tk"}

\* addon_config of a new profile (create_profile, lines 54-62)
NewConfig ==
    [enabled |-> TRUE, threat_threshold |-> 50, auto_flag |-> TRUE,
     notifications |-> TRUE, model_version |-> "1.0",
     whitelist |-> <<>>, blacklist |-> <<>>]

\* 'statistics' of a new profile (create_profile, lines 70-75)
NewStatistics == [total_emails_scanned |-> 0, threats_detected |-> 0]

\* sender in list
InList(x, list) == \E i \in 1..Len(list) : list[i] = x

\* list.remove(x): the list without the first x
Removed(x, list) ==
    SelectSeq(list, LAMBDA y : y # x)

\* the keyword arguments the settings operation is called with
SettingsArgs ==
    {[threat_threshold |-> 60], [whitelist |-> <<>>], [blacklist |-> <<>>],
     [whitelist |-> <<"bob1@mail.tk">>], [language |-> "en"]}

\* the emails the add-on is asked about: the phishing one from each sender
\* and a plain one
AddonEmails ==
    {[PhishEmail EXCEPT !.sender = s] : s \in Senders}
    \cup {[PlainEmail EXCEPT !.sender = "trusted@company.com"]}

\* the replies of analyze_single_email that do not come from the detector
WhitelistedReply ==
    [kind |-> "whitelisted", is_threat |-> FALSE, threat_score |-> 0,
     consulted |-> FALSE]
BlacklistedReply ==
    [kind |-> "blacklisted", is_threat |-> TRUE, threat_score |-> 100,
     consulted |-> FALSE]
NoProfileReply ==
    [kind |-> "error", is_threat |-> FALSE, threat_score |-> 0,
     consulted |-> FALSE]

\* the add-on with the blacklist read before the whitelist
analyze_single_email_blacklist_first(profs, username, email, c, t, available, registry, b, o) ==
    LET Reply(r) ==
            [reply |-> IF r.raised
                       THEN [kind |-> "raised", is_threat |-> FALSE,
                             threat_score |-> 0, consulted |-> TRUE]
                       ELSE [kind |-> "verdict", is_threat |-> r.verdict.is_threat,
                             threat_score |-> r.verdict.threat_score,
                             consulted |-> TRUE],
             cache |-> r.cache]
    IN  IF username \notin DOMAIN profs
        THEN [reply |-> NoProfileReply, cache |-> c]
        ELSE IF InList(email.sender, profs[username].blacklist)
        THEN [reply |-> BlacklistedReply, cache |-> c]
        ELSE IF InList(email.sender, profs[username].whitelist)
        THEN [reply |-> WhitelistedReply, cache |-> c]
        ELSE Reply(analyze_email(email, c, t, available, registry, b, o))

\* GmailAddonIntegration.analyze_single_email (lines 173-210): the reply and
\* the domain-age cache as the call left it
analyze_single_email(profs, username, email, c, t, available, registry, b, o) ==
    LET Reply(r) ==
            [reply |-> IF r.raised
                       THEN [kind |-> "raised", is_threat |-> FALSE,
                             threat_score |-> 0, consulted |-> TRUE]
                       ELSE [kind |-> "verdict", is_threat |-> r.verdict.is_threat,
                             threat_score |-> r.verdict.threat_score,
                             consulted |-> TRUE],
             cache |-> r.cache]
    IN  IF username \notin DOMAIN profs
        THEN [reply |-> NoProfileReply, cache |-> c]
        ELSE IF InList(email.sender, profs[username].whitelist)
        THEN [reply |-> WhitelistedReply, cache |-> c]
        ELSE IF InList(email.sender, profs[username].blacklist)
        THEN [reply |-> BlacklistedReply, cache |-> c]
        ELSE Reply(analyze_email(email, c, t, available, registry, b, o))

\* the variables the operations on profiles leave alone
detector_state ==
    <<features, sender_digit, bundle, oracle, verdict, whois_cache, clock,
      whois_registry, whois_available, input, prev, calls, semantic,
      user_inboxes>>

\* the grants of username, ended
Ended(username) ==
    {[g EXCEPT !.kept = FALSE] : g \in {h \in granted : h.user = username}}
    \cup {h \in granted : h.user # username}

\* GmailAddonManager.create_profile (lines 36-83)
CreateProfile(username) ==
    /\ username \notin DOMAIN profiles
    /\ profiles' = Update(profiles, [u \in {username} |-> NewConfig])
    /\ statistics' = Update(statistics, [u \in {username} |-> NewStatistics])
    /\ out' = [op |-> "create_profile", user |-> username, result |-> TRUE]
    /\ UNCHANGED <<detector_state, granted>>

\* add_to_whitelist (gmail_addon_manager.py lines 114-123)
AddToWhitelist(username, sender) ==
    /\ IF username \notin DOMAIN profiles
       THEN /\ out' = [op |-> "add_to_whitelist", user |-> username, result |-> FALSE]
            /\ UNCHANGED <<profiles, granted>>
       ELSE /\ profiles' =
                   IF InList(sender, profiles[username].whitelist) THEN profiles
                   ELSE [profiles EXCEPT ![username].whitelist = Append(@, sender)]
            /\ granted' =
                   {g \in granted : ~(g.user = username /\ g.sender = sender)}
                   \cup {[user |-> username, sender |-> sender, kept |-> TRUE]}
            /\ out' = [op |-> "add_to_whitelist", user |-> username, result |-> TRUE]
    /\ UNCHANGED detector_state
    /\ UNCHANGED statistics

\* add_to_blacklist (gmail_addon_manager.py lines 125-134)
AddToBlacklist(username, sender) ==
    /\ IF username \notin DOMAIN profiles
       THEN /\ out' = [op |-> "add_to_blacklist", user |-> username, result |-> FALSE]
            /\ UNCHANGED profiles
       ELSE /\ profiles' =
                   IF InList(sender, profiles[username].blacklist) THEN profiles
                   ELSE [profiles EXCEPT ![username].blacklist = Append(@, sender)]
            /\ out' = [op |-> "add_to_blacklist", user |-> username, result |-> TRUE]
    /\ UNCHANGED <<detector_state, granted>>
    /\ UNCHANGED statistics

\* update_addon_settings, which is update_profile_config (lines 85-112):
\* every keyword that is a key of addon_config replaces the value there
UpdateSettings(username, kwargs) ==
    /\ IF username \notin DOMAIN profiles
       THEN /\ out' = [op |-> "update_addon_settings", user |-> username,
                       result |-> FALSE]
            /\ UNCHANGED <<profiles, granted>>
       ELSE /\ profiles' =
                   [profiles EXCEPT ![username] =
                       [k \in DOMAIN @ |->
                           IF k \in DOMAIN kwargs THEN kwargs[k] ELSE @[k]]]
            /\ granted' = IF "whitelist" \in DOMAIN kwargs THEN Ended(username)
                          ELSE granted
            /\ out' = [op |-> "update_addon_settings", user |-> username,
                       result |-> TRUE]
    /\ UNCHANGED detector_state
    /\ UNCHANGED statistics

\* the route DELETE /api/whitelist/<email> (web_backend.py lines 1172-1186)
RemoveFromWhitelist(username, sender) ==
    /\ username \in DOMAIN profiles
    /\ InList(sender, profiles[username].whitelist)
    /\ profiles' = [profiles EXCEPT ![username].whitelist = Removed(sender, @)]
    /\ granted' =
           {g \in granted : ~(g.user = username /\ g.sender = sender)}
           \cup {[user |-> username, sender |-> sender, kept |-> FALSE]}
    /\ out' = [op |-> "remove_from_whitelist", user |-> username, result |-> TRUE]
    /\ UNCHANGED detector_state
    /\ UNCHANGED statistics

\* GmailAddonIntegration.analyze_single_email(username, email_data)
AnalyzeSingle(username, email) ==
    /\ \E r \in {analyze_single_email(profiles, username, email, whois_cache,
                                      clock, whois_available, whois_registry,
                                      bundle, oracle)} :
           /\ out' = [op |-> "analyze_single_email", user |-> username,
                      sender |-> email.sender, subject |-> email.subject,
                      reply |-> r.reply]
           /\ whois_cache' = r.cache
           /\ semantic' = IF r.reply.consulted THEN load_model(semantic)
                          ELSE semantic
    /\ UNCHANGED <<features, sender_digit, bundle, oracle, verdict, clock,
                   whois_registry, whois_available, input, prev, calls,
                   profiles, granted, user_inboxes, statistics>>

InitAddon ==
    /\ InitEnv({w \in WhoisWorlds : ~w.available})
    /\ bundle = NoBundle /\ oracle = QuietOracle
    /\ input = NoInput

NextAddon ==
    \/ \E u \in Users : CreateProfile(u)
    \/ \E u \in Users, x \in Senders : AddToWhitelist(u, x)
    \/ \E u \in Users, x \in Senders : AddToBlacklist(u, x)
    \/ \E u \in Users, kw \in SettingsArgs : UpdateSettings(u, kw)
    \/ \E u \in Users, x \in Senders : RemoveFromWhitelist(u, x)
    \/ \E u \in Users, e \in AddonEmails : AnalyzeSingle(u, e)

SpecAddon == InitAddon /\ [][NextAddon]_vars

\* the add-on has answered for an email of sender x to username
Answered(username, x) ==
    out.op = "analyze_single_email" /\ out.user = username /\ out.sender = x

\* the reply of a whitelisted sender: no threat, score 0.0, the detector
\* not consulted
IsWhitelistedReply(reply) ==
    /\ reply.kind = "whitelisted"
    /\ ~reply.is_threat
    /\ reply.threat_score = 0
    /\ ~reply.consulted

\* C15 (as claimed): once add_to_whitelist(user, s) has succeeded, every
\* later analyze_single_email(user, email) from s answers no threat and
\* score 0.0 without consulting the detector, after any further whitelist,
\* blacklist and settings operations on the profile.
C15_WhitelistedForGood ==
    \A g \in granted :
        Answered(g.user, g.sender) => IsWhitelistedReply(out.reply)

\* C15 (amended): the same, after any further add_to_whitelist and
\* add_to_blacklist operations and settings operations that do not set the
\* 'whitelist' key, s not having been removed from the whitelist.
C15_WhitelistedUntilListReplaced ==
    \A g \in granted :
        (g.kept /\ Answered(g.user, g.sender)) => IsWhitelistedReply(out.reply)

\* the sender was whitelisted, then blacklisted too, the threshold was
\* changed, and the add-on has answered for the phishing email from it
C15_Witness ==
    \E g \in granted :
        /\ g.kept
        /\ Answered(g.user, g.sender)
        /\ out.subject = PhishEmail.subject
        /\ InList(g.sender, profiles[g.user].blacklist)
        /\ profiles[g.user].threat_threshold = 60
        /\ IsWhitelistedReply(out.reply)

----------------------------------------------------------------------------
(* The annotations of the URLs (C21, C29) *)

\* lines 119-121: the URLs analyze_email hands to _get_suspicious_urls
AnnotatedUrls(email) ==
    IF email.urls = <<>> /\ email.body # "" THEN FindUrls(email.body, UrlStops)
    ELSE email.urls

\* the non-empty string URLs among the first 20
FirstUrls(email) ==
    SelectSeq(SubSeq(AnnotatedUrls(email), 1, Min(20, Len(AnnotatedUrls(email)))),
              LAMBDA u : u # "" /\ u # NoneUrl)

\* the reason of one URL from its own flags, read with the cache as the call
\* left it (every domain of the email is in it by then)
OwnReason(url) ==
    LET Of(x) == IF x.raised THEN "Could not analyze"
                 ELSE IF UrlReasons(x.features) = <<>> THEN "None"
                 ELSE Join(UrlReasons(x.features), "; ")
    IN  Of(url_extract_features(url, out.cache_after, out.at, whois_available,
                                whois_registry))

\* C21: suspicious_urls has one entry, in input order, for each non-empty
\* string URL among the first 20 and none for a later one; a URL on which
\* the URL Analyzer raises gets the reason 'Could not analyze', every other
\* URL its own reasons, and the verdict is returned all the same.
C21_UrlFailureIsAnnotated ==
    out.op = "analyze_email" =>
        /\ ~out.raised
        /\ Len(out.verdict.suspicious_urls) = Len(FirstUrls(out.email))
        /\ \A i \in 1..Len(FirstUrls(out.email)) :
               /\ out.verdict.suspicious_urls[i].url =
                      SubSeq(FirstUrls(out.email)[i], 1,
                             Min(200, Len(FirstUrls(out.email)[i])))
               /\ out.verdict.suspicious_urls[i].reason =
                      OwnReason(FirstUrls(out.email)[i])

----------------------------------------------------------------------------
(* The vector at the classifier boundary (C22) *)

\* the feature orders the bundles declare, the empty list among them
NameLists ==
    {<<>>,
     <<"phishing_keyword_count", "url_count", "from_has_numbers">>,
     <<"url_count", "phishing_keyword_count">>,
     <<"brand_impersonation", "semantic_phishing_score", "url_count">>}

VectorBundles ==
    {[ProbaBundle EXCEPT !.feature_names = n, !.scaler = s,
                         !.has_predict_proba = p] :
        n \in NameLists, s \in {NoScaler, [present |-> TRUE, mean |-> 1]},
        p \in BOOLEAN}

\* FeatureMaps with and without some of the keys the bundles name
VectorMaps ==
    {[k \in DOMAIN m \ gone |-> m[k]] :
        m \in {FeatureMapOf(pk, 0, url, 0, 0, 0, ext) :
                  pk \in {0, 2}, url \in {0, 3},
                  ext \in {{}, {"brand_impersonation"}}},
        gone \in {{}, {"url_count"},
                  {"phishing_keyword_count", "brand_impersonation"}}}

\* _ml_detection on the FeatureMap of the state (lines 174-205), with the
\* vector _features_to_array built and the one the classifier was called on
ClassifyFeatures ==
    /\ verdict = NoVerdict
    /\ bundle.present
    /\ \E m \in {ml_detection(features, bundle, oracle)} :
           out' = [op |-> "ml_detection",
                   built |-> features_to_array(features, bundle.feature_names).arr,
                   given |-> m.feature_array,
                   score |-> m.score]
    /\ verdict' = score_features(features, sender_digit, bundle, oracle)
    /\ UNCHANGED <<features, sender_digit, bundle, oracle, whois_cache, clock,
                   whois_registry, whois_available, input, prev>>
    /\ UNCHANGED aside

InitVector ==
    /\ features \in VectorMaps
    /\ sender_digit = FALSE
    /\ bundle \in VectorBundles
    /\ oracle \in {[QuietOracle EXCEPT !.proba = <<100 - p, p>>, !.prediction = 1] :
                      p \in {30, 80}}
    /\ verdict = NoVerdict
    /\ EnvAtRest

NextVector == ClassifyFeatures

SpecVector == InitVector /\ [][NextVector]_vars

\* entry i of v is the FeatureMap value of the i-th declared name, 0 when
\* the FeatureMap does not hold it
FollowsDeclaredOrder(v) ==
    /\ Len(v) = Len(bundle.feature_names)
    /\ \A i \in 1..Len(bundle.feature_names) :
           v[i] = IF bundle.feature_names[i] \in DOMAIN features
                  THEN features[bundle.feature_names[i]] ELSE 0

\* C22 (as claimed): the vector given to the classifier has len(feature_names)
\* entries, entry i the FeatureMap value of feature_names[i] or 0 when the
\* key is absent, whatever other keys the FeatureMap holds, and the verdict
\* returns the FeatureMap unchanged.
C22_ClassifierGivenFeatureValues ==
    out.op = "ml_detection" =>
        /\ FollowsDeclaredOrder(out.given)
        /\ verdict.features = features

\* C22 (amended): the same for a bundle whose feature_names is not empty,
\* of the vector as it is built, before the bundle's scaler, if any, is
\* applied to it.
C22_BuiltVectorFollowsDeclaredOrder ==
    (out.op = "ml_detection" /\ bundle.feature_names # <<>>) =>
        /\ FollowsDeclaredOrder(out.built)
        /\ verdict.features = features

\* a bundle with a scaler names a key the FeatureMap lacks, the FeatureMap
\* holds keys the bundle does not name, and a named key is not 0
C22_Witness ==
    /\ out.op = "ml_detection"
    /\ bundle.scaler.present
    /\ \E i \in 1..Len(bundle.feature_names) :
           bundle.feature_names[i] \notin DOMAIN features /\ out.built[i] = 0
    /\ \E i \in 1..Len(bundle.feature_names) : out.built[i] = 3
    /\ \E k \in DOMAIN features :
           features[k] # 0 /\ \A i \in 1..Len(bundle.feature_names) :
                                  bundle.feature_names[i] # k
    /\ out.given # out.built

----------------------------------------------------------------------------
(* The contributions of the attribution step (C23) *)

\* the number of features of the wide bundle, above top_k
MaxNames == 17

\* a bundle that declares MaxNames features, the legacy list from its start
WideBundle ==
    [ProbaBundle EXCEPT !.feature_names = SubSeq(LegacyFeatureNames, 1, MaxNames),
                        !.scaler = NoScaler]

\* rows of MaxNames signed values: rising, falling, with ties at the cut,
\* with the large values last, all equal
WideRows ==
    {[i \in 1..MaxNames |-> i], [i \in 1..MaxNames |-> 0 - i],
     [i \in 1..MaxNames |-> MaxNames - i],
     [i \in 1..MaxNames |-> IF i % 2 = 0 THEN i ELSE 0 - i],
     [i \in 1..MaxNames |-> IF i < 4 THEN 0 ELSE 5],
     [i \in 1..MaxNames |-> IF i > 14 THEN 0 - 9 ELSE i % 3],
     [i \in 1..MaxNames |-> 2], [i \in 1..MaxNames - 1 |-> i * i]}

\* the runs: no classifier; the classifier or the attribution raising; the
\* attribution missing; short rows and rows longer than top_k
ContribRuns ==
    {[bundle |-> NoBundle, oracle |-> [QuietOracle EXCEPT !.shap_available = a]] :
        a \in BOOLEAN}
    \cup {[bundle |-> b,
           oracle |-> [QuietOracle EXCEPT !.fail = x, !.shap_available = a,
                          !.shap_raises = r, !.shap = row]] :
            b \in {ProbaBundle, PredictBundle, LegacyBundle},
            x \in Failures, a \in BOOLEAN, r \in BOOLEAN,
            row \in {<<>>, <<2, -1, 1>>, <<0, 0, -3>>}}
    \cup {[bundle |-> WideBundle,
           oracle |-> [QuietOracle EXCEPT !.fail = x, !.shap_available = TRUE,
                          !.shap_raises = r, !.shap = row]] :
            x \in {"none", "predict"}, r \in BOOLEAN, row \in WideRows}

InitContrib ==
    /\ features \in {FeatureMapOf(pk, 0, url, 0, 0, 0, {}) :
                        pk \in {0, 2}, url \in {0, 1}}
    /\ sender_digit = FALSE
    /\ \E r \in ContribRuns : bundle = r.bundle /\ oracle = r.oracle
    /\ verdict = NoVerdict
    /\ EnvAtRest

SpecContrib == InitContrib /\ [][NextScoring]_vars

\* the names _features_to_array used
NamesUsed ==
    IF bundle.feature_names # <<>> THEN bundle.feature_names
    ELSE LegacyFeatureNames

\* the contributions the attribution step answered, one per named feature
Attributed ==
    {[feature |-> NamesUsed[i], contribution |-> oracle.shap[i]] :
        i \in 1..Min(Len(NamesUsed), Len(oracle.shap))}

\* the cases in which the claim says the list is empty
MustBeEmpty ==
    \/ ~bundle.present
    \/ MlRaises(bundle, oracle)
    \/ oracle.shap_raises
    \/ ~bundle.has_predict_proba

\* the entries of list l
Entries(l) == {l[i] : i \in 1..Len(l)}

\* C23: feature_contributions is empty without a classifier, after a
\* fall-back to the rules and when the attribution step raises; otherwise it
\* holds at most top_k entries, the contributions of largest absolute value
\* in non-increasing order of absolute value; and a verdict is returned in
\* every case.
C23_TopContributionsOrEmpty ==
    verdict # NoVerdict =>
        /\ verdict.threat_score \in 0..100
        /\ MustBeEmpty => verdict.feature_contributions = <<>>
        /\ Len(verdict.feature_contributions) <= top_k
        /\ (~MustBeEmpty /\ oracle.shap_available) =>
               /\ Len(verdict.feature_contributions) =
                      Min(top_k, Cardinality(Attributed))
               /\ Cardinality(Entries(verdict.feature_contributions)) =
                      Len(verdict.feature_contributions)
               /\ Entries(verdict.feature_contributions) \subseteq Attributed
               /\ \A i \in 1..Len(verdict.feature_contributions) - 1 :
                      Abs(verdict.feature_contributions[i].contribution) >=
                          Abs(verdict.feature_contributions[i + 1].contribution)
               /\ \A e \in Attributed \ Entries(verdict.feature_contributions) :
                      \A k \in Entries(verdict.feature_contributions) :
                          Abs(e.contribution) <= Abs(k.contribution)

\* more than top_k contributions came back, the largest of them late in the
\* row, and the list holds top_k of them
C23_Witness ==
    /\ verdict # NoVerdict
    /\ Cardinality(Attributed) > top_k
    /\ Len(verdict.feature_contributions) = top_k
    /\ verdict.feature_contributions[1].feature = NamesUsed[MaxNames]
    /\ Attributed \ Entries(verdict.feature_contributions) # {}

\* the attribution step raised and the verdict came back with an empty list
C23_WitnessRaised ==
    /\ verdict # NoVerdict
    /\ bundle.present /\ ~MlRaises(bundle, oracle)
    /\ oracle.shap_available /\ oracle.shap_raises
    /\ verdict.feature_contributions = <<>>
    /\ verdict.threat_score = 0

----------------------------------------------------------------------------
(* Behavioral Analyzer: behavioral_extractor.py (C24).  Scores are in       *)
(* hundredths.  An attachment is a dict, with "" for a key that is missing, *)
(* None or empty, or a string.                                              *)

HIGH_RISK_EXT ==
    {"exe", "scr", "bat", "cmd", "com", "pif", "vbs", "js", "wsf", "wsh", "jar",
     "ws", "cpl", "msc"}
MEDIUM_RISK_EXT ==
    {"zip", "rar", "7z", "doc", "docx", "xls", "xlsb", "xlsm", "pdf", "hta", "lnk"}

\* lines 74-78: the lower-cased name of an attachment
AttachmentName(att) ==
    IF att.kind = "dict"
    THEN Lower(IF att.filename # "" THEN att.filename ELSE att.name)
    ELSE Lower(att.text)

\* line 81: name.split('.')[-1] if '.' in name else ''
Extension(name) ==
    IF Contains(name, ".") THEN Split(name, ".")[Len(Split(name, "."))] ELSE ""

\* lines 82-86: what one attachment adds to risk_sum
AttachmentRisk(att) ==
    IF AttachmentName(att) = "" THEN 0
    ELSE IF Extension(AttachmentName(att)) \in HIGH_RISK_EXT THEN 100
    ELSE IF Extension(AttachmentName(att)) \in MEDIUM_RISK_EXT THEN 50
    ELSE 0

\* text.split() of line 52 is empty: subject and body hold only whitespace
NoWords(subject, body) ==
    \A i \in 1..Len(Lower(subject \o " " \o body)) :
        Ch(Lower(subject \o " " \o body), i) \in Whitespace

\* extract_features (lines 38-89), the two attachment keys; cta_intensity
\* and time_pressure_score do not enter them
behavioral_extract_features(body, subject, attachments) ==
    IF NoWords(subject, body) \/ attachments = <<>>
    THEN [attachment_risk_score |-> 0, has_high_risk_attachment |-> 0]
    ELSE [attachment_risk_score |->
              Min(100, SumSeq([i \in 1..Len(attachments) |->
                                  AttachmentRisk(attachments[i])])),
          has_high_risk_attachment |->
              IF \E i \in 1..Len(attachments) :
                     AttachmentRisk(attachments[i]) = 100
              THEN 1 ELSE 0]

MaxAttachments == 3

Attachments ==
    {[kind |-> "dict", filename |-> "Invoice.EXE", name |-> ""],
     [kind |-> "dict", filename |-> "", name |-> "report.pdf"],
     [kind |-> "dict", filename |-> "", name |-> ""],
     [kind |-> "dict", filename |-> "notes.txt", name |-> "x.exe"],
     [kind |-> "str", text |-> "photos.tar.zip"],
     [kind |-> "str", text |-> "exe"]}

AttachmentLists == UNION {[1..n -> Attachments] : n \in 0..MaxAttachments}

\* behavioral_extractor.extract_features(body, subject, attachments)
ExtractBehavioral ==
    /\ input.kind = "behavioral"
    /\ out = NoOut
    /\ out' = [op |-> "behavioral_extract_features",
               result |-> behavioral_extract_features(
                              input.body, input.subject, input.attachments)]
    /\ prev' = out
    /\ UNCHANGED <<features, sender_digit, bundle, oracle, verdict, whois_cache,
                   clock, whois_registry, whois_available, input>>
    /\ UNCHANGED aside

InitBehavioral ==
    /\ InitEnv({w \in WhoisWorlds : ~w.available})
    /\ bundle = NoBundle /\ oracle = QuietOracle
    /\ input \in {[kind |-> "behavioral", subject |-> s, body |-> b,
                   attachments |-> a] :
                     s \in {"", "Invoice"}, b \in {"", " ", "see attached"},
                     a \in AttachmentLists}

NextBehavioral == ExtractBehavioral

SpecBehavioral == InitBehavioral /\ [][NextBehavioral]_vars

\* the weight the attachment carries by its extension: the part of its
\* lower-cased filename after the last dot
ExtensionWeight(att) ==
    IF Extension(AttachmentName(att)) \in HIGH_RISK_EXT THEN 100
    ELSE IF Extension(AttachmentName(att)) \in MEDIUM_RISK_EXT THEN 50
    ELSE 0

\* C24: for every subject and body, both empty included, and every
\* attachment list, attachment_risk_score is the sum of 1.0 per high-risk
\* and 0.5 per medium-risk extension, capped at 1.0, and
\* has_high_risk_attachment is 1 exactly when an attachment has a high-risk
\* extension.
C24_AttachmentRiskIsCappedSum ==
    out.op = "behavioral_extract_features" =>
        /\ out.result.attachment_risk_score =
               Min(100, SumSeq([i \in 1..Len(input.attachments) |->
                                   ExtensionWeight(input.attachments[i])]))
        /\ out.result.has_high_risk_attachment = 1 <=>
               \E i \in 1..Len(input.attachments) :
                   ExtensionWeight(input.attachments[i]) = 100

----------------------------------------------------------------------------
(* What an analysis leaves behind (C25) *)

\* analyze_email(email_data) on the caller's record, any number of times
FrameAnalyze ==
    /\ input.kind = "frame"
    /\ AnalyzeEmail(input.email)

InitFrame ==
    /\ features = <<>>
    /\ sender_digit = FALSE
    /\ verdict = NoVerdict
    /\ whois_cache = <<>>
    /\ clock = 0
    /\ \E w \in EmailWorlds :
           whois_available = w.available /\ whois_registry = w.registry
    /\ \E d \in Detectors : bundle = d.bundle /\ oracle = d.oracle
    /\ input \in {[kind |-> "frame", email |-> e] :
                     e \in {PlainEmail, TwoUrlEmail, BadPortEmail}}
    /\ out = NoOut
    /\ prev = NoOut
    /\ calls = <<>>
    /\ profiles = <<>>
    /\ granted = {}
    /\ user_inboxes = <<>>
    /\ statistics = <<>>
    /\ semantic \in {NoSemantic, [NoSemantic EXCEPT !.installed = TRUE]}

NextFrame == FrameAnalyze \/ Tick

SpecFrame == InitFrame /\ [][NextFrame]_vars

\* the step is a call of analyze_email
Analysed == out' # out /\ out'.op = "analyze_email"

\* the caller's record, the bundle and the state around the detector are
\* as before the call
CallerAndBundleKept ==
    /\ input' = input
    /\ out'.email = input.email
    /\ bundle' = bundle
    /\ oracle' = oracle
    /\ UNCHANGED <<clock, whois_registry, whois_available, calls, profiles,
                   granted>>

----------------------------------------------------------------------------
(* Confidence (C26) *)

\* C26: confidence is 'high' exactly when threat_score >= 0.8 or the verdict
\* lists at least 4 risk factors, otherwise 'medium' exactly when
\* threat_score >= 0.6 or it lists at least 2, otherwise 'low'.
C26_ConfidenceBands ==
    verdict # NoVerdict =>
        /\ verdict.confidence \in {"high", "medium", "low"}
        /\ verdict.confidence = "high" <=>
               (verdict.threat_score >= 80 \/ Len(verdict.risk_factors) >= 4)
        /\ verdict.confidence = "medium" <=>
               /\ ~(verdict.threat_score >= 80 \/ Len(verdict.risk_factors) >= 4)
               /\ (verdict.threat_score >= 60 \/ Len(verdict.risk_factors) >= 2)

\* four risk factors make the confidence high under a score below 0.6
C26_Witness ==
    /\ verdict # NoVerdict
    /\ verdict.threat_score < 60
    /\ Len(verdict.risk_factors) = 4
    /\ verdict.confidence = "high"

----------------------------------------------------------------------------
(* Brand impersonation among the risk factors (C27) *)

BrandUrls ==
    {"http://paypal-verify.com/login", "https://paypal.com/y", "http://a.tk/x"}

\* emails with one to MaxUrls links, in the urls list or in the body
BrandEmails ==
    {Email("Your account", "please review", "service@paypal.com", "", urls, <<>>) :
        urls \in UNION {[1..n -> BrandUrls] : n \in 1..MaxUrls}}
    \cup {Email("Your account", "review at " \o u, "service@paypal.com", "",
                <<>>, <<>>) : u \in BrandUrls}

InitBrand ==
    /\ InitEnv(EmailWorlds)
    /\ bundle = NoBundle /\ oracle = QuietOracle
    /\ input \in {[kind |-> "scenario", email |-> e] : e \in BrandEmails}

SpecBrand == InitBrand /\ [][NextScenario]_vars

\* the URLs the feature extractor analyses (feature_extractor.py lines
\* 66-68)
ExtractedUrls(email) ==
    IF email.urls # <<>> THEN email.urls ELSE extract_urls_from_text(email.body)

\* the URL Analyzer gives url brand_impersonation = 1
Impersonates(url) ==
    url_extract_features(url, out.cache_after, out.at, whois_available,
                         whois_registry).features.brand_impersonation = 1

\* C27: whenever a URL of the email has brand_impersonation = 1, the
\* verdict's risk_factors contains 'Possible brand impersonation in URL',
\* with one URL and with two or more.
C27_BrandImpersonationIsReported ==
    (ScenarioDone /\ ~out.raised) =>
        ((\E i \in 1..Len(ExtractedUrls(out.email)) :
              Impersonates(ExtractedUrls(out.email)[i]))
         => Reported("Possible brand impersonation in URL"))

----------------------------------------------------------------------------
(* The canonical URLs of the brand table (C28) *)

\* URLs on the canonical domain of each brand of the table, naming no
\* other brand
CanonicalUrls ==
    UNION {{"https://" \o BRAND_CANONICAL[i][2] \o ".com/",
            "https://www." \o BRAND_CANONICAL[i][2] \o ".com/",
            "http://" \o BRAND_CANONICAL[i][2] \o ".com/login",
            "https://" \o BRAND_CANONICAL[i][2] \o ".com"} :
           i \in 1..Len(BRAND_CANONICAL)}

InitCanonical ==
    /\ InitEnv({w \in WhoisWorlds : ~w.available})
    /\ bundle = NoBundle /\ oracle = QuietOracle
    /\ input \in {[kind |-> "url", url |-> u] : u \in CanonicalUrls}

NextCanonical == ExtractUrl

SpecCanonical == InitCanonical /\ [][NextCanonical]_vars

\* C28: a URL hosted on the canonical domain of a brand of the table, and
\* naming no other brand, gets brand_impersonation = 0.
C28_CanonicalUrlIsNotImpersonation ==
    (UrlDone /\ input.kind = "url" /\ input.url \in CanonicalUrls) =>
        /\ ~out.raised
        /\ out.features.brand_impersonation = 0

\* the age of the URL's domain is known: the host has a public suffix, the
\* lookup capability is present and the registry answered with a creation
\* date
AgeKnown(url) ==
    /\ tldextract(url).suffix \notin {"", "local"}
    /\ whois_available
    /\ WhoisKey(tldextract(url)) \in DOMAIN whois_registry
    /\ ~whois_registry[WhoisKey(tldextract(url))].raises
    /\ whois_registry[WhoisKey(tldextract(url))].has_creation

\* C29: 'New or young domain' is given only to a URL whose looked-up domain
\* age is below 90 days, and never to a URL whose domain age is unknown
\* (no lookup capability, lookup failed or timed out, host without a public
\* suffix).
C29_YoungDomainNeedsKnownAge ==
    (out.op = "analyze_email" /\ ~out.raised) =>
        \A i \in 1..Len(out.verdict.suspicious_urls) :
            Contains(out.verdict.suspicious_urls[i].reason, "New or young domain")
            => /\ AgeKnown(FirstUrls(out.email)[i])
               /\ WhoisKey(tldextract(FirstUrls(out.email)[i]))
                      \in DOMAIN out.cache_after
               /\ out.cache_after[WhoisKey(tldextract(FirstUrls(out.email)[i]))]
                      .age_days < 90

----------------------------------------------------------------------------
(* Scanning an inbox: GmailAddonIntegration.scan_inbox (C30).  The id of an *)
(* email is its position in the inbox.                                      *)

MaxInbox == 2

\* the thresholds profiles are set up with
Thresholds == {40, 80}

\* the emails delivered: a plain one from the first sender, one of score
\* 0.7 from a third party, the phishing one from the second sender
MediumEmail ==
    Email("Account notice", "urgent: verify your account, click here",
          "billing@corp.com", "", <<>>, <<>>)
InboxEmails ==
    {[PlainEmail EXCEPT !.sender = "trusted@company.com"], MediumEmail, PhishEmail}

\* the inbox create_inbox makes (gmail_simulator.py lines 32-43)
NewInbox == [emails |-> <<>>, flagged |-> {}]

RECURSIVE ScanLoop(_, _, _, _, _, _, _, _, _, _, _)
\* the loop of lines 95-155 from email i on: the results, the ids flagged,
\* the cache; raised where analyze_email raises, with what was flagged
\* before it
ScanLoop(emails, i, cfg, auto_flag, threat_threshold, c, t, available, registry, b, o) ==
    LET Listed(reply, rest) ==
            [raised |-> rest.raised,
             results |-> <<[email_id |-> i, sender |-> emails[i].sender,
                            kind |-> reply.kind, is_threat |-> reply.is_threat,
                            threat_score |-> reply.threat_score]>> \o rest.results,
             flagged |-> (IF reply.is_threat /\ auto_flag THEN {i} ELSE {})
                         \cup rest.flagged,
             cache |-> rest.cache]
        Detected(r) ==
            IF r.raised
            THEN [raised |-> TRUE, results |-> <<>>, flagged |-> {},
                  cache |-> r.cache]
            ELSE Listed([kind |-> "verdict",
                         is_threat |-> r.verdict.threat_score >= threat_threshold,
                         threat_score |-> r.verdict.threat_score],
                        ScanLoop(emails, i + 1, cfg, auto_flag, threat_threshold,
                                 r.cache, t, available, registry, b, o))
        Rest == ScanLoop(emails, i + 1, cfg, auto_flag, threat_threshold, c, t,
                         available, registry, b, o)
    IN  IF i > Len(emails)
        THEN [raised |-> FALSE, results |-> <<>>, flagged |-> {}, cache |-> c]
        ELSE IF InList(emails[i].sender, cfg.whitelist)
        THEN Listed(WhitelistedReply, Rest)
        ELSE IF InList(emails[i].sender, cfg.blacklist)
        THEN Listed(BlacklistedReply, Rest)
        ELSE Detected(analyze_email(emails[i], c, t, available, registry, b, o))

\* scan_inbox (lines 83-171) for a profile with addon_config cfg and a
\* non-empty inbox; line 87 caps the threshold at 0.6
scan_inbox(cfg, emails, auto_flag, c, t, available, registry, b, o) ==
    ScanLoop(emails, 1, cfg, IF auto_flag = <<>> THEN cfg.auto_flag ELSE auto_flag[1],
             Min(cfg.threat_threshold, 60), c, t, available, registry, b, o)

\* the number of results marked as threats
Marked(results) ==
    Cardinality({i \in 1..Len(results) : results[i].is_threat})

\* setup_user_profile(username, email, threat_threshold, auto_flag)
\* (lines 24-55): the profile and an empty inbox
SetupProfile(username, threat_threshold, auto_flag) ==
    /\ IF username \in DOMAIN profiles
       THEN /\ out' = [op |-> "setup_user_profile", user |-> username,
                       result |-> FALSE]
            /\ UNCHANGED <<profiles, statistics, user_inboxes>>
       ELSE /\ profiles' =
                   Update(profiles,
                          [u \in {username} |->
                              [NewConfig EXCEPT !.threat_threshold = threat_threshold,
                                                !.auto_flag = auto_flag]])
            /\ statistics' = Update(statistics, [u \in {username} |-> NewStatistics])
            /\ user_inboxes' = Update(user_inboxes, [u \in {username} |-> NewInbox])
            /\ out' = [op |-> "setup_user_profile", user |-> username,
                       result |-> TRUE]
    /\ UNCHANGED <<features, sender_digit, bundle, oracle, verdict, whois_cache,
                   clock, whois_registry, whois_available, input, prev, calls,
                   granted, semantic>>

\* GmailSimulator.add_email(username, email_data) (lines 64-84)
Deliver(username, email) ==
    /\ username \in DOMAIN user_inboxes
    /\ Len(user_inboxes[username].emails) < MaxInbox
    /\ user_inboxes' = [user_inboxes EXCEPT ![username].emails = Append(@, email)]
    /\ out' = [op |-> "add_email", user |-> username, result |-> TRUE]
    /\ UNCHANGED <<features, sender_digit, bundle, oracle, verdict, whois_cache,
                   clock, whois_registry, whois_available, input, prev, calls,
                   profiles, granted, semantic, statistics>>

\* scan_inbox(username, auto_flag), auto_flag <<>> for None and <<v>> for
\* the value v: no profile, an empty inbox, a scan that raises with
\* analyze_email, or a scan that returns
ScanInbox(username, auto_flag) ==
    /\ IF username \notin DOMAIN profiles
       THEN /\ out' = [op |-> "scan_inbox", user |-> username, kind |-> "error"]
            /\ UNCHANGED <<whois_cache, semantic, user_inboxes, statistics>>
       ELSE IF username \notin DOMAIN user_inboxes
               \/ user_inboxes[username].emails = <<>>
       THEN /\ out' = [op |-> "scan_inbox", user |-> username, kind |-> "empty",
                       total_scanned |-> 0, threats_found |-> 0, results |-> <<>>]
            /\ UNCHANGED <<whois_cache, semantic, user_inboxes, statistics>>
       ELSE \E r \in {scan_inbox(profiles[username],
                                 user_inboxes[username].emails, auto_flag,
                                 whois_cache, clock, whois_available,
                                 whois_registry, bundle, oracle)} :
                /\ out' = IF r.raised
                          THEN [op |-> "scan_inbox", user |-> username,
                                kind |-> "raised"]
                          ELSE [op |-> "scan_inbox", user |-> username,
                                kind |-> "scanned",
                                threshold |-> profiles[username].threat_threshold,
                                total_scanned |->
                                    Len(user_inboxes[username].emails),
                                threats_found |-> Marked(r.results),
                                results |-> r.results]
                /\ whois_cache' = r.cache
                /\ semantic' =
                       IF \E i \in 1..Len(r.results) : r.results[i].kind = "verdict"
                       THEN load_model(semantic) ELSE semantic
                /\ user_inboxes' =
                       [user_inboxes EXCEPT ![username].flagged = @ \cup r.flagged]
                /\ statistics' =
                       IF r.raised THEN statistics
                       ELSE [statistics EXCEPT ![username] =
                                [total_emails_scanned |->
                                     Len(user_inboxes[username].emails),
                                 threats_detected |-> Marked(r.results)]]
    /\ UNCHANGED <<features, sender_digit, bundle, oracle, verdict, clock,
                   whois_registry, whois_available, input, prev, calls,
                   profiles, granted>>

InitScan ==
    /\ InitEnv({w \in WhoisWorlds : ~w.available})
    /\ bundle = NoBundle /\ oracle = QuietOracle
    /\ input = NoInput

NextScan ==
    \/ \E u \in Users, th \in Thresholds : SetupProfile(u, th, TRUE)
    \/ \E u \in Users : AddToWhitelist(u, "trusted@company.com")
    \/ \E u \in Users : AddToBlacklist(u, "bob1@mail.tk")
    \/ \E u \in Users, e \in InboxEmails : Deliver(u, e)
    \/ \E u \in Users, a \in {<<>>, <<FALSE>>} : ScanInbox(u, a)

SpecScan == InitScan /\ [][NextScan]_vars

\* C30: scan_inbox marks an email whose sender is neither whitelisted nor
\* blacklisted as a threat exactly when its threat_score is at or above the
\* threat_threshold stored in the user's profile, whatever that threshold
\* is, and threats_found is the number of results marked as threats.
C30_StoredThresholdDecides ==
    (out.op = "scan_inbox" /\ out.kind = "scanned") =>
        /\ \A i \in 1..Len(out.results) :
               out.results[i].kind = "verdict" =>
                   (out.results[i].is_threat <=>
                        out.results[i].threat_score >= out.threshold)
        /\ out.threats_found = Marked(out.results)

====
